---- MODULE Spec2Model ----
(***************************************************************************)
(* Import engine of the budget application: ImportService over the         *)
(* Budget / BudgetItem / ImportTracker / Category / Member / Source        *)
(* tables.                                                                 *)
(*                                                                         *)
(* Storage is one committed database value `db`.  A running import holds   *)
(* its uncommitted writes in `tx[e]` (the outer transaction.atomic() of    *)
(* import_transactions); what the run reads is the committed database      *)
(* with its own writes applied.  The per-record inner atomic() block is a  *)
(* savepoint: when the record raises, the writes made for it are dropped.  *)
(* Amounts are whole cents (the column scale, decimal_places=2).           *)
(***************************************************************************)
EXTENDS Integers, Sequences, FiniteSets, TLC

(* ------------------------------ bounds --------------------------------- *)
MaxLen == 2
MaxRuns == 2
MaxAdds == 1
MaxFaults == 1
MaxRows == 2

Budgets == {1, 2}
Engines == {1, 2}

(* ------------------------- normalized records -------------------------- *)
Rec(d, a, s, c, m, src) ==
  [date |-> d, amount |-> a, description |-> s, category |-> c,
   member |-> m, source |-> src, reference_number |-> ""]

RecordSet ==
  { Rec(2, 10, "x", "food", "", "cash"),
    Rec(1, -5, "x", "food", "ann", "bank"),
    Rec(2, 10, "y", "", "", "") }

RecordLists == UNION { [1..n -> RecordSet] : n \in 0..MaxLen }

\* where the processing of one record raises; "none" = it does not
Faults == {"none", "resolve", "sequence", "create", "link"}


(* ------------------------------ storage -------------------------------- *)
EmptyDb ==
  [items |-> {}, trackers |-> {}, cats |-> {}, mems |-> {}, srcs |-> {},
   seq |-> [b \in Budgets |-> 0],
   bcats |-> {}, bmems |-> {}, bsrcs |-> {}]

\* the database before the first import: no budget has items; one source
\* exists already, created with a type other than the default
InitialDb ==
  [EmptyDb EXCEPT !.srcs = {[name |-> "bank", source_type |-> "transfer"]}]

\* uncommitted writes of one transaction
EmptyTx ==
  [items |-> {}, rbw |-> {}, trackers |-> {}, cats |-> {}, mems |-> {},
   srcs |-> {}, seqw |-> {}, bcats |-> {}, bmems |-> {}, bsrcs |-> {}]

WithRb(i, rbw) ==
  IF \E w \in rbw : w[1] = i.uid
    THEN [i EXCEPT !.rb = (CHOOSE w \in rbw : w[1] = i.uid)[2]]
    ELSE i

\* the database as seen with the writes t applied; also what COMMIT installs
Apply(d, t) ==
  [items    |-> {WithRb(i, t.rbw) : i \in d.items} \cup t.items,
   trackers |-> {r \in d.trackers : \A u \in t.trackers : u.id # r.id}
                  \cup t.trackers,
   cats     |-> d.cats \cup t.cats,
   mems     |-> d.mems \cup t.mems,
   srcs     |-> d.srcs \cup t.srcs,
   seq      |-> [b \in Budgets |->
                   IF \E w \in t.seqw : w[1] = b
                     THEN (CHOOSE w \in t.seqw : w[1] = b)[2]
                     ELSE d.seq[b]],
   bcats    |-> d.bcats \cup t.bcats,
   bmems    |-> d.bmems \cup t.bmems,
   bsrcs    |-> d.bsrcs \cup t.bsrcs]

ItemsOf(d, b) == {i \in d.items : i.budget = b}

RECURSIVE SumAmounts(_)
SumAmounts(S) ==
  IF S = {} THEN 0
  ELSE LET i == CHOOSE x \in S : TRUE IN i.amount + SumAmounts(S \ {i})

VARIABLES db, tx, pc, svc, run, nextTracker, adds, faults, issued, pv,
          parser, session

vars == <<db, tx, pc, svc, run, nextTracker, adds, faults, issued, pv,
          parser, session>>

(* --------------------------- ImportService ------------------------------ *)
ZeroStats == [total |-> 0, imported |-> 0, duplicates |-> 0, errors |-> 0]

\* ImportService.__init__ : the budget object (with the counter value it was
\* loaded with), zeroed stats, empty error and duplicate lists
NewService(b, counter) ==
  [budget |-> b, current_sequence_number |-> counter,
   stats |-> ZeroStats, errors |-> <<>>, duplicates |-> <<>>]

NoService == NewService(0, 0)

\* the invocation in progress: the records passed, those not yet processed, the index of
\* the last processed one, the tracker's id, the returned success flag, and
\* (for the properties) the committed database the run started from and the
\* largest sequence number handed out for its budget before it started
NoRun == [records |-> <<>>, todo |-> <<>>, idx |-> 0, tracker |-> 0, success |-> FALSE,
          pre |-> EmptyDb, issued0 |-> 0, projected |-> -1]

\* no parser object exists
NoParser == [format |-> "none"]

\* uploads of one session
MaxUploads == 2

\* request.session holds no "pending_import"
NoPending == [budget |-> 0]

\* the browser session: pending is request.session["pending_import"] as the
\* session store holds it; (for the properties) uploads counts the uploads
\* made, a stored pending import carries the number of the upload that
\* stored it, held[e] is the upload whose pending import request e has read
\* (0 = none), committed[u] counts the import runs of upload u's pending
\* import that have returned, and parse_errors is the number of errors the
\* parser of the last upload reported
NoSession ==
  [pending |-> NoPending, uploads |-> 0, held |-> [e \in Engines |-> 0],
   committed |-> [u \in 1..MaxUploads |-> 0], parse_errors |-> 0]

\* no preview of a pending import is on display
NoPreview == [budget |-> 0]

\* issued[b] (for the properties): the largest number get_next_sequence_number
\* has returned for budget b so far, whatever became of the caller's writes
Init ==
  /\ db = InitialDb
  /\ tx = [e \in Engines |-> EmptyTx]
  /\ pc = [e \in Engines |-> "idle"]
  /\ svc = [e \in Engines |-> NoService]
  /\ run = [e \in Engines |-> NoRun]
  /\ nextTracker = 1
  /\ adds = 0
  /\ faults = 0
  /\ issued = [b \in Budgets |-> 0]
  /\ pv = NoPreview
  /\ parser = NoParser
  /\ session = NoSession

CommittedView(e) == db

View(e) == Apply(db, tx[e])

\* every finished request has delivered its response
Quiet == \A e \in Engines : pc[e] \notin {"done", "aborted"}

Active(e) == pc[e] \in {"loop", "commit"}

(* ---------------------- duplicate detector ----------------------------- *)
IsDuplicateAnyBudget(v, b, r) ==
  \E i \in v.items :
    /\ i.date = r.date
    /\ i.amount = r.amount
    /\ i.description = r.description

\* ImportService._is_duplicate
IsDuplicate(v, b, r) ==
  \E i \in v.items :
    /\ i.budget = b
    /\ i.date = r.date
    /\ i.amount = r.amount
    /\ i.description = r.description

(* ----------------------- reference resolver ---------------------------- *)
AnyCategory(name) == FALSE

\* `if not category_name: return None` of _get_or_create_category: no
\* category for a name that is missing (None) or empty, both written ""
NoCategory(name) == name = ""

\* ImportService._get_or_create_category, for a non-empty name
GetOrCreateCategory(d, t, b, name) ==
  LET t1 == IF \E c \in Apply(d, t).cats : c.name = name
              THEN t
              ELSE [t EXCEPT !.cats = @ \cup
                      {[name |-> name, description |-> "auto"]}]
  IN IF <<b, name>> \in Apply(d, t1).bcats
       THEN t1
       ELSE [t1 EXCEPT !.bcats = @ \cup {<<b, name>>}]

\* ImportService._get_or_create_member; called only when the record names one
GetOrCreateMember(d, t, b, name) ==
  LET t1 == IF \E m \in Apply(d, t).mems : m.name = name
              THEN t
              ELSE [t EXCEPT !.mems = @ \cup {[name |-> name]}]
  IN IF <<b, name>> \in Apply(d, t1).bmems
       THEN t1
       ELSE [t1 EXCEPT !.bmems = @ \cup {<<b, name>>}]

CreateSource(d, t, b, name) ==
  LET t1 == [t EXCEPT !.srcs = @ \cup
               {[name |-> name, source_type |-> "income"]}]
  IN [t1 EXCEPT !.bsrcs = @ \cup {<<b, name>>}]

\* ImportService._get_or_create_source; called only when the record names one
GetOrCreateSource(d, t, b, name) ==
  LET t1 == IF \E s \in Apply(d, t).srcs : s.name = name
              THEN t
              ELSE [t EXCEPT !.srcs = @ \cup
                      {[name |-> name, source_type |-> "income"]}]
  IN IF <<b, name>> \in Apply(d, t1).bsrcs
       THEN t1
       ELSE [t1 EXCEPT !.bsrcs = @ \cup {<<b, name>>}]

(* ------------------------------ preview -------------------------------- *)
PreviewLimitDefault == 20

\* the limits a caller passes to preview_import
Limits == {-1, 0, 1, PreviewLimitDefault}

\* transactions[:preview_limit]
Prefix(recs, limit) ==
  IF limit >= 0
    THEN SubSeq(recs, 1, IF limit < Len(recs) THEN limit ELSE Len(recs))
    ELSE SubSeq(recs, 1, IF Len(recs) + limit > 0 THEN Len(recs) + limit ELSE 0)

\* Category.objects.filter(name=category_name).exists()
CategoryExists(d, name) == \E c \in d.cats : c.name = name

PreviewRowCreating(acc, b, r, idx) ==
  [acc EXCEPT
     !.storage.cats = IF r.category # "" /\ ~CategoryExists(acc.storage, r.category)
                        THEN @ \cup {[name |-> r.category, description |-> "auto"]}
                        ELSE @,
     !.preview_items = Append(@,
        [row |-> idx, is_duplicate |-> IsDuplicate(acc.storage, b, r),
         category_will_be_created |->
           (r.category # "" /\ ~CategoryExists(acc.storage, r.category))])]

\* one pass of the first loop of preview_import, for row idx
PreviewRow(acc, b, r, idx) ==
  LET is_duplicate == IsDuplicate(acc.storage, b, r)
      category_exists == CategoryExists(acc.storage, r.category)
  IN [acc EXCEPT
        !.duplicates = IF is_duplicate
                         THEN Append(@, [row |-> idx,
                                         description |-> r.description,
                                         date |-> r.date, amount |-> r.amount])
                         ELSE @,
        !.missing_categories = IF r.category # "" /\ ~category_exists
                                 THEN @ \cup {r.category} ELSE @,
        !.preview_items = Append(@,
           [row |-> idx, is_duplicate |-> is_duplicate,
            category_will_be_created |->
              (~category_exists /\ r.category # "")])]

RECURSIVE PreviewRows(_, _, _, _)
PreviewRows(acc, b, rows, idx) ==
  IF rows = <<>> THEN acc
  ELSE PreviewRows(PreviewRow(acc, b, Head(rows), idx), b, Tail(rows), idx + 1)

\* the second loop of preview_import: duplicates in the full record list
TotalDuplicates(d, b, recs) ==
  Cardinality({k \in 1..Len(recs) : IsDuplicate(d, b, recs[k])})

\* ImportService.preview_import against storage d; `storage` is the storage
\* the call leaves behind
PreviewImport(d, b, recs, limit) ==
  LET acc == PreviewRows([storage |-> d, preview_items |-> <<>>,
                          duplicates |-> <<>>, missing_categories |-> {}],
                         b, Prefix(recs, limit), 1)
      total_duplicates == TotalDuplicates(acc.storage, b, recs)
  IN [storage |-> acc.storage,
      total_count |-> Len(recs),
      preview_count |-> Len(acc.preview_items),
      preview_items |-> acc.preview_items,
      warnings |-> (IF acc.missing_categories # {} THEN {"info"} ELSE {})
                     \cup (IF acc.duplicates # <<>> THEN {"warning"} ELSE {}),
      duplicates |-> acc.duplicates,
      total_duplicates |-> total_duplicates,
      will_import |-> Len(recs) - total_duplicates,
      missing_categories |-> acc.missing_categories]

(* ------------------------- sequence counter ---------------------------- *)
SameSequenceNumber(current) == current

\* Budget.get_next_sequence_number on the loaded budget object: the value
\* the object holds after the increment, which is saved and returned
NextSequenceNumber(current) == current + 1

\* Budget.save(update_fields=['current_sequence_number'])
SaveCounter(t, b, n) ==
  [t EXCEPT !.seqw = {w \in @ : w[1] # b} \cup {<<b, n>>}]

(* --------------------------- budget items ------------------------------ *)
UniqueIdWithoutTracker(tracker, n) == <<"IMP", 0, n>>

\* unique_id of an imported item: f"IMP-{import_tracker.pk}-{sequence_number}"
ImportUniqueId(tracker, n) == <<"IMP", tracker, n>>

\* unique_id BudgetItem.save generates: f"{self.budget.id}-{self.sequence_number}"
SavedUniqueId(b, n) == <<"BUD", b, n>>

NewItem(b, uid, n, r, isImport) ==
  [budget |-> b, uid |-> uid, seq |-> n, date |-> r.date,
   amount |-> r.amount, description |-> r.description,
   member |-> r.member, source |-> r.source, cats |-> {},
   rb |-> 0, imported |-> isImport, reference_number |-> r.reference_number]

\* the value None of a record, stored as the column value NULL
Null == "NULL"

\* BudgetItem.reference_number is a CharField without null=True: the insert
\* of an item whose reference_number is None raises IntegrityError
NotNullViolated(r) == r.reference_number = Null

\* unique=True on BudgetItem.unique_id
UniqueIdTaken(v, uid) == \E i \in v.items : i.uid = uid

\* item.categories.add(category)
LinkCategory(t, uid, name) ==
  [t EXCEPT !.items =
     {IF i.uid = uid THEN [i EXCEPT !.cats = @ \cup {name}] ELSE i : i \in @}]

NoSavepoint(saved, current) == current

\* leaving the inner transaction.atomic() by an exception: back to the
\* savepoint taken when the record's block was entered
RollbackToSavepoint(saved, current) == saved

(* ----------------------- running-balance recompute --------------------- *)
OrderedBySequenceOnly(i, j) == i.seq < j.seq

\* order_by("date", "sequence_number")
OrderedBefore(i, j) ==
  \/ i.date < j.date
  \/ i.date = j.date /\ i.seq < j.seq

\* the orders the query may return the rows in (rows with equal keys in any order)
RECURSIVE QueryOrders(_)
QueryOrders(S) ==
  IF S = {} THEN {<<>>}
  ELSE UNION { {<<m>> \o rest : rest \in QueryOrders(S \ {m})} :
               m \in {x \in S : \A y \in S : ~OrderedBefore(y, x)} }

RECURSIVE Accumulate(_, _)
\* the running_balance written onto the k-th row: amounts 1..k added to 0
Accumulate(ord, k) ==
  IF k = 0 THEN 0 ELSE Accumulate(ord, k - 1) + ord[k].amount

\* ImportService._recalculate_running_balances, rows taken in order ord:
\* one UPDATE of running_balance per row
RecalculateRunningBalances(t, ord) ==
  LET bal(uid) == Accumulate(ord, CHOOSE k \in 1..Len(ord) : ord[k].uid = uid)
      uids == {ord[k].uid : k \in 1..Len(ord)}
      own == {i.uid : i \in t.items}
  IN [t EXCEPT
        !.items = {IF i.uid \in uids THEN [i EXCEPT !.rb = bal(i.uid)] ELSE i
                     : i \in @},
        !.rbw = {w \in @ : w[1] \notin uids}
                  \cup {<<u, bal(u)>> : u \in uids \ own}]

(* ------------------------------ actions -------------------------------- *)
\* bulk_upload_confirm: load the budget, construct the service, enter
\* import_transactions up to the creation of the tracker
Begin(e, b, recs) ==
  /\ Quiet
  /\ pc[e] = "idle"
  /\ nextTracker <= MaxRuns
  /\ svc' = [svc EXCEPT ![e] =
       [NewService(b, db.seq[b]) EXCEPT !.stats.total = Len(recs)]]
  /\ tx' = [tx EXCEPT ![e] =
       [EmptyTx EXCEPT !.trackers =
          {[id |-> nextTracker, budget |-> b,
            items_imported |-> 0, duplicates_found |-> 0]}]]
  /\ run' = [run EXCEPT ![e] =
       [records |-> recs, todo |-> recs, idx |-> 0, tracker |-> nextTracker,
        success |-> FALSE, pre |-> db, issued0 |-> issued[b],
        projected |-> IF /\ pv # NoPreview /\ pv.budget = b
                         /\ pv.records = recs /\ pv.storage = db
                        THEN pv.will_import ELSE -1]]
  /\ pv' = NoPreview
  /\ nextTracker' = nextTracker + 1
  /\ pc' = [pc EXCEPT ![e] = "loop"]
  /\ UNCHANGED <<db, adds, faults, issued, parser, session>>

\* the writes of one record's block when nothing raises before `stage`
WritesUpTo(d, t0, b, tracker, n, r, stage) ==
  LET t1 == GetOrCreateCategory(d, t0, b, r.category)
      t2 == IF r.member # "" THEN GetOrCreateMember(d, t1, b, r.member) ELSE t1
      t3 == IF r.source # "" THEN GetOrCreateSource(d, t2, b, r.source) ELSE t2
      t4 == SaveCounter(t3, b, n)
      uid == ImportUniqueId(tracker, n)
      t5 == [t4 EXCEPT !.items = @ \cup {NewItem(b, uid, n, r, TRUE)}]
      t6 == LinkCategory(t5, uid, r.category)
  IN CASE stage = "resolve"  -> t1
       [] stage = "sequence" -> t3
       [] stage = "create"   -> t4
       [] stage = "link"     -> t5
       [] OTHER              -> t6

\* budget.save() updates the budget's row: it waits while another open
\* transaction holds an uncommitted update of that row
CounterRowFree(e, b) ==
  \A o \in Engines \ {e} : \A w \in tx[o].seqw : w[1] # b

\* item.save() in the recompute waits while another open transaction holds
\* uncommitted updates of the budget's item rows
ItemRowsFree(e, b) ==
  \A o \in Engines \ {e} : svc[o].budget = b => tx[o].rbw = {}

\* the rest of the loop body for a record that is no duplicate and has a
\* category: sequence number, insert, link, count; f is the statement that
\* raises, if any
CreateItem(e) ==
  LET row == run[e].idx + 1
      r == Head(run[e].todo)
      b == svc[e].budget
      s == svc[e]
      n == NextSequenceNumber(s.current_sequence_number)
  IN \E f \in Faults :
          LET clash == UniqueIdTaken(
                         Apply(db, WritesUpTo(db, tx[e], b, run[e].tracker,
                                              n, r, "create")),
                         ImportUniqueId(run[e].tracker, n))
              raised == IF f = "none" /\ (clash \/ NotNullViolated(r))
                          THEN "create" ELSE f
          IN IF raised # "none" THEN
               /\ raised # "resolve" => CounterRowFree(e, b)
               /\ f # "none" => faults < MaxFaults
               /\ faults' = IF f # "none" THEN faults + 1 ELSE faults
               /\ svc' = [svc EXCEPT ![e] =
                    [s EXCEPT !.stats.errors = @ + 1,
                              !.errors = Append(@, row),
                              !.current_sequence_number =
                                 IF raised = "resolve" THEN @ ELSE n]]
               /\ issued' = IF raised \in {"create", "link"} /\ n > issued[b]
                              THEN [issued EXCEPT ![b] = n] ELSE issued
               /\ tx' = [tx EXCEPT ![e] =
                    RollbackToSavepoint(@,
                      WritesUpTo(db, @, b, run[e].tracker, n, r, raised))]
             ELSE
               /\ CounterRowFree(e, b)
               /\ svc' = [svc EXCEPT ![e] =
                    [s EXCEPT !.stats.imported = @ + 1,
                              !.current_sequence_number = n]]
               /\ issued' = IF n > issued[b]
                              THEN [issued EXCEPT ![b] = n] ELSE issued
               /\ tx' = [tx EXCEPT ![e] =
                    WritesUpTo(db, @, b, run[e].tracker, n, r, "none")]
               /\ UNCHANGED faults

\* one pass of the loop body of import_transactions for the next record
ProcessRecord(e) ==
  /\ Quiet
  /\ pc[e] = "loop"
  /\ run[e].todo # <<>>
  /\ LET row == run[e].idx + 1
         r == Head(run[e].todo)
         b == svc[e].budget
         s == svc[e]
         n == NextSequenceNumber(s.current_sequence_number)
     IN \/ /\ IsDuplicate(View(e), b, r)
           /\ svc' = [svc EXCEPT ![e] =
                [s EXCEPT !.stats.duplicates = @ + 1,
                          !.duplicates = Append(@,
                             [row |-> row, description |-> r.description,
                              date |-> r.date, amount |-> r.amount])]]
           /\ UNCHANGED <<tx, faults, issued>>
        \/ /\ ~IsDuplicate(View(e), b, r)
           /\ NoCategory(r.category)
           /\ svc' = [svc EXCEPT ![e] =
                [s EXCEPT !.stats.errors = @ + 1, !.errors = Append(@, row)]]
           /\ UNCHANGED <<tx, faults, issued>>
        \/ /\ ~IsDuplicate(View(e), b, r)
           /\ ~NoCategory(r.category)
           /\ CreateItem(e)
  /\ run' = [run EXCEPT ![e].idx = @ + 1, ![e].todo = Tail(@)]
  /\ UNCHANGED <<db, pc, nextTracker, adds, pv, parser, session>>

SaveCountsTotal(t, stats) ==
  [t EXCEPT !.trackers =
     {[u EXCEPT !.items_imported = stats.total,
                !.duplicates_found = stats.duplicates] : u \in @}]

\* import_tracker.items_imported / duplicates_found set from the statistics,
\* then import_tracker.save()
SaveCounts(t, stats) ==
  [t EXCEPT !.trackers =
     {[u EXCEPT !.items_imported = stats.imported,
                !.duplicates_found = stats.duplicates] : u \in @}]

\* after the loop: the tracker's final counts are saved and the balances of
\* the whole budget recomputed
Finish(e) ==
  /\ Quiet
  /\ pc[e] = "loop"
  /\ run[e].todo = <<>>
  /\ ItemRowsFree(e, svc[e].budget)
  /\ LET t1 == SaveCounts(tx[e], svc[e].stats)
     IN \E ord \in QueryOrders(ItemsOf(Apply(db, t1), svc[e].budget)) :
          tx' = [tx EXCEPT ![e] = RecalculateRunningBalances(t1, ord)]
  /\ pc' = [pc EXCEPT ![e] = "commit"]
  /\ UNCHANGED <<db, svc, run, nextTracker, adds, faults, issued, pv, parser, session>>

SuccessNoErrors(stats) == stats.errors = 0

SuccessSomeImported(stats) == stats.imported > 0

\* success flag of the returned dictionary
Success(stats) == stats.errors = 0 \/ stats.imported > 0

\* leaving the outer transaction.atomic() normally, then the return
Commit(e) ==
  /\ Quiet
  /\ pc[e] = "commit"
  /\ db' = Apply(db, tx[e])
  /\ tx' = [tx EXCEPT ![e] = EmptyTx]
  /\ run' = [run EXCEPT ![e].success = Success(svc[e].stats)]
  /\ pc' = [pc EXCEPT ![e] = "done"]
  /\ UNCHANGED <<svc, nextTracker, adds, faults, issued, pv, parser, session>>

KeepWrites(t) == t

\* what is left of the outer transaction's writes when an exception leaves it
RollbackOuter(t) == EmptyTx

\* an exception escapes the outer transaction.atomic(): the tracker save or
\* the balance recompute raises
StorageFault(e) ==
  /\ Quiet
  /\ pc[e] = "loop"
  /\ run[e].todo = <<>>
  /\ faults < MaxFaults
  /\ faults' = faults + 1
  /\ db' = Apply(db, RollbackOuter(tx[e]))
  /\ tx' = [tx EXCEPT ![e] = EmptyTx]
  /\ pc' = [pc EXCEPT ![e] = "aborted"]
  /\ UNCHANGED <<svc, run, nextTracker, adds, issued, pv, parser, session>>

\* the request ends: its service object and result are dropped
EndRequest(e) ==
  /\ pc[e] \in {"done", "aborted"}
  /\ pc' = [pc EXCEPT ![e] = "idle"]
  /\ svc' = [svc EXCEPT ![e] = NoService]
  /\ run' = [run EXCEPT ![e] = NoRun]
  /\ UNCHANGED <<db, tx, nextTracker, adds, faults, issued, pv, parser, session>>

\* add_transaction: BudgetItem(budget, date, description, amount).save() in
\* autocommit; the counter is saved before the row is inserted
AddItem(b, r) ==
  /\ Quiet
  /\ adds < MaxAdds
  /\ LET n == NextSequenceNumber(db.seq[b])
         uid == SavedUniqueId(b, n)
         d1 == [db EXCEPT !.seq[b] = n]
     IN /\ db' = IF UniqueIdTaken(d1, uid) THEN d1
                 ELSE [d1 EXCEPT !.items = @ \cup {NewItem(b, uid, n, r, FALSE)}]
        /\ issued' = IF n > issued[b] THEN [issued EXCEPT ![b] = n] ELSE issued
  /\ adds' = adds + 1
  /\ UNCHANGED <<tx, pc, svc, run, nextTracker, faults, pv, parser, session>>

\* bulk_upload_preview: the pending records are previewed for budget b; the
\* result stays on display until an import is confirmed
Preview(b, recs, limit) ==
  /\ Quiet
  /\ \A e \in Engines : pc[e] = "idle"
  /\ pv = NoPreview
  /\ nextTracker <= MaxRuns
  /\ LET res == PreviewImport(db, b, recs, limit)
     IN /\ db' = res.storage
        /\ pv' = [res EXCEPT !.storage = db'] @@ [budget |-> b, records |-> recs]
  /\ UNCHANGED <<tx, pc, svc, run, nextTracker, adds, faults, issued, parser, session>>

(* --------------------------- specifications ---------------------------- *)
\* no import is in flight on budget b (other than engine e's)
NoOtherWriter(e, b) == \A o \in Engines \ {e} : Active(o) => svc[o].budget # b

\* Spec: one import request at a time (the single-writer assumption),
\* interleaved with single-item creations
StartImport ==
  \E b \in Budgets, recs \in RecordLists : Begin(1, b, recs)

AddTransaction ==
  \E b \in Budgets, r \in RecordSet : NoOtherWriter(0, b) /\ AddItem(b, r)

PreviewPending ==
  \E b \in Budgets, recs \in RecordLists, limit \in Limits :
    Preview(b, recs, limit)

Next ==
  \/ StartImport
  \/ ProcessRecord(1)
  \/ Finish(1)
  \/ Commit(1)
  \/ StorageFault(1)
  \/ EndRequest(1)
  \/ AddTransaction
  \/ PreviewPending

Spec == Init /\ [][Next]_vars

\* SpecConc: two requests at a time, never both importing into one budget
StartImportElsewhere ==
  \E e \in Engines, b \in Budgets, recs \in RecordLists :
    NoOtherWriter(e, b) /\ Begin(e, b, recs)

NextConc ==
  \/ StartImportElsewhere
  \/ \E e \in Engines : ProcessRecord(e)
  \/ \E e \in Engines : Finish(e)
  \/ \E e \in Engines : Commit(e)
  \/ \E e \in Engines : StorageFault(e)
  \/ \E e \in Engines : EndRequest(e)

SpecConc == Init /\ [][NextConc]_vars

\* SpecRace: two requests at a time, into any budgets
StartAnyImport ==
  \E e \in Engines, b \in Budgets, recs \in RecordLists : Begin(e, b, recs)

NextRace ==
  \/ StartAnyImport
  \/ \E e \in Engines : ProcessRecord(e)
  \/ \E e \in Engines : Finish(e)
  \/ \E e \in Engines : Commit(e)
  \/ \E e \in Engines : StorageFault(e)
  \/ \E e \in Engines : EndRequest(e)

SpecRace == Init /\ [][NextRace]_vars

(* -------------------------------- text --------------------------------- *)
\* a text is a sequence of characters; None is Python's None, Absent a child
\* element or attribute that is not there
None == <<"None">>

Absent == <<"Absent">>

White == {" ", "\t"}

Digits == <<"0", "1", "2", "3", "4", "5", "6", "7", "8", "9">>

UpperCase == <<"A", "B", "C", "D", "E", "F", "G", "H", "I", "J", "K", "L", "M",
               "N", "O", "P", "Q", "R", "S", "T", "U", "V", "W", "X", "Y", "Z">>

LowerCase == <<"a", "b", "c", "d", "e", "f", "g", "h", "i", "j", "k", "l", "m",
               "n", "o", "p", "q", "r", "s", "t", "u", "v", "w", "x", "y", "z">>

IndexIn(seq, c) == CHOOSE i \in 1..Len(seq) : seq[i] = c

IsIn(seq, c) == \E i \in 1..Len(seq) : seq[i] = c

ToLower ==
  [c \in {UpperCase[i] : i \in 1..26} |-> LowerCase[IndexIn(UpperCase, c)]]

ToUpper ==
  [c \in {LowerCase[i] : i \in 1..26} |-> UpperCase[IndexIn(LowerCase, c)]]

\* str.lower and str.upper
Lower(t) ==
  [i \in 1..Len(t) |-> IF t[i] \in DOMAIN ToLower THEN ToLower[t[i]] ELSE t[i]]

Upper(t) ==
  [i \in 1..Len(t) |-> IF t[i] \in DOMAIN ToUpper THEN ToUpper[t[i]] ELSE t[i]]

RECURSIVE LStrip(_)
LStrip(t) == IF t # <<>> /\ Head(t) \in White THEN LStrip(Tail(t)) ELSE t

RECURSIVE RStrip(_)
RStrip(t) ==
  IF t # <<>> /\ t[Len(t)] \in White
    THEN RStrip(SubSeq(t, 1, Len(t) - 1)) ELSE t

NoStrip(t) == t

\* str.strip
Strip(t) == RStrip(LStrip(t))

\* str.replace(c, '')
Without(t, c) == SelectSeq(t, LAMBDA x : x # c)

\* `sub in t` for texts
Contains(t, sub) ==
  \E i \in 0..(Len(t) - Len(sub)) : SubSeq(t, i + 1, i + Len(sub)) = sub

\* the texts between the separators: str.split(sep)
RECURSIVE Split(_, _)
Split(t, sep) ==
  IF ~IsIn(t, sep) THEN <<t>>
  ELSE LET i == CHOOSE k \in 1..Len(t) :
                  t[k] = sep /\ \A j \in 1..(k - 1) : t[j] # sep
       IN <<SubSeq(t, 1, i - 1)>> \o Split(SubSeq(t, i + 1, Len(t)), sep)

AllDigits(t) == t # <<>> /\ \A i \in 1..Len(t) : IsIn(Digits, t[i])

RECURSIVE Number(_)
Number(t) ==
  IF t = <<>> THEN 0
  ELSE 10 * Number(SubSeq(t, 1, Len(t) - 1)) + (IndexIn(Digits, t[Len(t)]) - 1)

(* ------------------------------- dates --------------------------------- *)
DaysIn(y, m) ==
  IF m \in {4, 6, 9, 11} THEN 30
  ELSE IF m # 2 THEN 31
  ELSE IF (y % 4 = 0 /\ y % 100 # 0) \/ y % 400 = 0 THEN 29 ELSE 28

\* datetime.strptime(text, fmt).date() for a format of three numeric
\* directives joined by one separator; None stands for ValueError
StrpTime(t, sep, order) ==
  LET parts == Split(t, sep)
      at(d) == parts[CHOOSE i \in 1..3 : order[i] = d]
  IN IF Len(parts) # 3 \/ \E i \in 1..3 : ~AllDigits(parts[i]) THEN None
     ELSE IF Len(at("Y")) # 4 \/ Len(at("m")) > 2 \/ Len(at("d")) > 2 THEN None
     ELSE LET y == Number(at("Y"))
              m == Number(at("m"))
              d == Number(at("d"))
          IN IF y < 1 \/ m < 1 \/ m > 12 \/ d < 1 \/ d > DaysIn(y, m)
               THEN None
               ELSE <<y, m, d>>

\* date_formats of _parse_date, in the order they are tried
DateFormats ==
  << <<"-", <<"Y", "m", "d">> >>,
     <<"/", <<"m", "d", "Y">> >>,
     <<"/", <<"d", "m", "Y">> >>,
     <<"/", <<"Y", "m", "d">> >>,
     <<"-", <<"m", "d", "Y">> >>,
     <<"-", <<"d", "m", "Y">> >> >>

\* the loop of _parse_date from format k on: the first format that accepts
RECURSIVE FirstAccepted(_, _, _)
FirstAccepted(t, formats, k) ==
  IF k > Len(formats) THEN None
  ELSE LET r == StrpTime(t, formats[k][1], formats[k][2])
       IN IF r # None THEN r ELSE FirstAccepted(t, formats, k + 1)

\* Decimal(text) accepts: an optional sign, digits with at most one point,
\* at least one digit (exponents, NaN and Infinity are not among the inputs)
IsDecimal(t) ==
  LET body == IF t # <<>> /\ Head(t) \in {"-", "+"} THEN Tail(t) ELSE t
      digits == Without(body, ".")
  IN /\ AllDigits(digits)
     /\ Len(body) - Len(digits) <= 1

\* amount_str.replace('$', '').replace(',', '').strip()
CleanAmount(t) == Strip(Without(Without(t, "$"), ","))

(* ----------------------- delimited-text parser ------------------------- *)
\* a dict as the sequence of its items: one item per key, in the order the
\* keys were first inserted, each with the value inserted last
RECURSIVE DictOf(_)
DictOf(pairs) ==
  IF pairs = <<>> THEN <<>>
  ELSE LET k == Head(pairs)[1]
           same == SelectSeq(pairs, LAMBDA p : p[1] = k)
           rest == SelectSeq(Tail(pairs), LAMBDA p : p[1] # k)
       IN << <<k, same[Len(same)][2]>> >> \o DictOf(rest)

HasKey(d, k) == \E i \in 1..Len(d) : d[i][1] = k

\* dict.get(k, default)
Get(d, k, default) ==
  IF HasKey(d, k) THEN d[CHOOSE i \in 1..Len(d) : d[i][1] = k][2] ELSE default

\* the fields of a row beyond the last header, kept under the key None
Rest == <<"list">>

\* csv.DictReader's row for the fields of one line: missing fields are None,
\* surplus fields go under the key None
DictRow(fieldnames, fields) ==
  LET lf == Len(fieldnames)
      lr == Len(fields)
      n == IF lf < lr THEN lf ELSE lr
  IN DictOf([i \in 1..n |-> <<fieldnames[i], fields[i]>>]
            \o (IF lf < lr THEN << <<None, Rest>> >>
                ELSE [i \in 1..(lf - lr) |-> <<fieldnames[lr + i], None>>]))

\* CSVParser._parse_date
CsvParseDate(errors, date_str, row_num) ==
  LET d == FirstAccepted(date_str, DateFormats, 1)
  IN [value |-> d,
      errors |-> IF d = None
                   THEN Append(errors, [row |-> row_num, msg |-> "Invalid date format"])
                   ELSE errors]

\* CSVParser._parse_amount
CsvParseAmount(errors, amount_str, row_num) ==
  LET cleaned == CleanAmount(amount_str)
  IN IF IsDecimal(cleaned)
       THEN [value |-> cleaned, errors |-> errors]
       ELSE [value |-> None,
             errors |-> Append(errors, [row |-> row_num, msg |-> "Invalid amount"])]

\* `text or None`
OrNone(t) == IF t = <<>> THEN None ELSE t

\* CSVParser._parse_row on a row none of whose keys or values is None;
\* transaction is the record returned, if one is
CsvParseFields(errors, raw, row_num) ==
  LET row == DictOf([i \in 1..Len(raw) |->
                       <<Strip(Lower(raw[i][1])), Strip(raw[i][2])>>])
      Fail(msg) == [transaction |-> <<>>, raised |-> FALSE,
                    errors |-> Append(errors, [row |-> row_num, msg |-> msg])]
      date_str == Get(row, <<"d", "a", "t", "e">>, <<>>)
      date == CsvParseDate(errors, date_str, row_num)
      description == Strip(Get(row, <<"d", "e", "s", "c", "r", "i", "p", "t", "i", "o", "n">>, <<>>))
      amount_str == Get(row, <<"a", "m", "o", "u", "n", "t">>, <<>>)
      amount == CsvParseAmount(errors, amount_str, row_num)
      category == Strip(Get(row, <<"c", "a", "t", "e", "g", "o", "r", "y">>, <<>>))
  IN IF \A i \in 1..Len(row) : row[i][2] = <<>>
       THEN [transaction |-> <<>>, raised |-> FALSE, errors |-> errors]
     ELSE IF date_str = <<>> THEN Fail("Date is required")
     ELSE IF date.value = None
       THEN [transaction |-> <<>>, raised |-> FALSE, errors |-> date.errors]
     ELSE IF description = <<>> THEN Fail("Description is required")
     ELSE IF amount_str = <<>> THEN Fail("Amount is required")
     ELSE IF amount.value = None
       THEN [transaction |-> <<>>, raised |-> FALSE, errors |-> amount.errors]
     ELSE IF category = <<>> THEN Fail("Category is required")
     ELSE [transaction |->
            <<[date |-> date.value, description |-> description,
              amount |-> amount.value, category |-> category,
              member |-> OrNone(Strip(Get(row, <<"m", "e", "m", "b", "e", "r">>, <<>>))),
              source |-> OrNone(Strip(Get(row, <<"s", "o", "u", "r", "c", "e">>, <<>>))),
              reference_number |-> Strip(Get(row, <<"r", "e", "f", "e", "r", "e", "n", "c", "e", "_", "n", "u", "m", "b", "e", "r">>, <<>>))]>>,
           raised |-> FALSE, errors |-> errors]

\* CSVParser._parse_row: k.lower() and v.strip() raise AttributeError on None
CsvParseRow(errors, raw, row_num) ==
  IF \E i \in 1..Len(raw) : raw[i][1] = None \/ raw[i][2] = None
    THEN [transaction |-> <<>>, raised |-> TRUE, errors |-> errors]
    ELSE CsvParseFields(errors, raw, row_num)

ExpectedHeaders == {<<"d", "a", "t", "e">>, <<"d", "e", "s", "c", "r", "i", "p", "t", "i", "o", "n">>, <<"a", "m", "o", "u", "n", "t">>, <<"c", "a", "t", "e", "g", "o", "r", "y">>}

HeadersExact(fieldnames) == {fieldnames[i] : i \in 1..Len(fieldnames)}

\* headers = set(h.lower().strip() for h in reader.fieldnames)
Headers(fieldnames) ==
  {Strip(Lower(fieldnames[i])) : i \in 1..Len(fieldnames)}

\* the first lines a file may have: none at all (fieldnames is None), a blank
\* line, or header fields
FirstLines ==
  { None, <<>>,
    <<<<"d", "a", "t", "e">>, <<"d", "e", "s", "c", "r", "i", "p", "t", "i", "o", "n">>, <<"a", "m", "o", "u", "n", "t">>, <<"c", "a", "t", "e", "g", "o", "r", "y">>>>,
    <<<<"D", "a", "t", "e", " ">>, <<" ", "D", "E", "S", "C", "R", "I", "P", "T", "I", "O", "N">>, <<"A", "m", "o", "u", "n", "t">>, <<"c", "a", "t", "e", "g", "o", "r", "y">>, <<"M", "e", "m", "b", "e", "r">>>>,
    <<<<"d", "a", "t", "e">>, <<"d", "e", "s", "c", "r", "i", "p", "t", "i", "o", "n">>, <<"a", "m", "o", "u", "n", "t">>>>,
    <<<<"d", "a", "t", "e">>, <<"d", "e", "s", "c", "r", "i", "p", "t", "i", "o", "n">>, <<"a", "m", "o", "u", "n", "t">>, <<"c", "a", "t", "e", "g", "o", "r", "i", "e", "s">>, <<"m", "e", "m", "b", "e", "r">>>> }

\* the texts a field of a data line may hold, by column
FieldTexts(header) ==
  LET h == Strip(Lower(header))
  IN IF h = <<"d", "a", "t", "e">> THEN {<<>>, <<"1", "3", "/", "0", "1", "/", "2", "0", "2", "4">>, <<"2", "0", "2", "4", "-", "1", "3", "-", "0", "1">>}
     ELSE IF h = <<"d", "e", "s", "c", "r", "i", "p", "t", "i", "o", "n">> THEN {<<>>, <<" ">>, <<" ", "a", " ">>}
     ELSE IF h = <<"a", "m", "o", "u", "n", "t">> THEN {<<>>, <<"-", "$", "1", ",", "0", "0", "0", ".", "5", "0">>, <<"$">>}
     ELSE IF h = <<"c", "a", "t", "e", "g", "o", "r", "y">> THEN {<<>>, <<" ">>, <<"f", "o", "o", "d">>}
     ELSE {<<>>, <<"a", "n", "n">>}

RECURSIVE FullLines(_)
FullLines(fieldnames) ==
  IF fieldnames = <<>> THEN {<<>>}
  ELSE {<<v>> \o r : v \in FieldTexts(Head(fieldnames)),
                     r \in FullLines(Tail(fieldnames))}

\* the lines that may follow the header: a blank line, a line with a field
\* for every header, a line that lacks the last field, and a line of empty
\* or of valid fields with one field more
DataLines(fieldnames) ==
  LET full == FullLines(fieldnames)
      Uniform(r) == (\A i \in 1..Len(r) : r[i] = <<>>)
                      \/ (\A i \in 1..Len(r) : Strip(r[i]) # <<>>)
  IN {<<>>} \cup full
       \cup {SubSeq(r, 1, Len(r) - 1) : r \in full}
       \cup {r \o <<<<"x">>>> : r \in {q \in full : Uniform(q)}}

\* CSVParser(file_content).parse() up to the header check
CsvOpen(first) ==
  /\ parser = NoParser
  /\ parser' =
       LET new == [format |-> "csv", state |-> "rows", fieldnames |-> first,
                   transactions |-> <<>>, errors |-> <<>>, warnings |-> <<>>,
                   row_num |-> 1, lines |-> IF first = None THEN 0 ELSE 1,
                   last |-> first]
       IN IF first = None \/ first = <<>>
            THEN [new EXCEPT !.state = "returned",
                    !.errors = <<[row |-> 0, msg |-> "CSV file is empty or has no headers"]>>]
          ELSE IF ~(ExpectedHeaders \subseteq Headers(first))
            THEN [new EXCEPT !.state = "returned",
                    !.errors = <<[row |-> 0, msg |-> "Missing required columns"]>>]
          ELSE new
  /\ UNCHANGED <<db, tx, pc, svc, run, nextTracker, adds, faults, issued, pv, session>>

\* the reader yields the next line: DictReader passes over a blank line; any
\* other line is a row of the loop in parse
CsvLine(fields) ==
  /\ parser.format = "csv" /\ parser.state = "rows"
  /\ parser.lines <= MaxRows
  /\ IF fields = <<>>
       THEN parser' = [parser EXCEPT !.lines = @ + 1, !.last = fields]
       ELSE LET row_num == parser.row_num + 1
                res == CsvParseRow(parser.errors,
                                   DictRow(parser.fieldnames, fields), row_num)
            IN parser' = [parser EXCEPT
                 !.lines = @ + 1, !.last = fields, !.row_num = row_num,
                 !.transactions = @ \o res.transaction,
                 !.errors = IF res.raised
                              THEN Append(@, [row |-> row_num, msg |-> "exception"])
                              ELSE res.errors]
  /\ UNCHANGED <<db, tx, pc, svc, run, nextTracker, adds, faults, issued, pv, session>>

\* the reader is exhausted: parse returns the transactions
CsvReturn ==
  /\ parser.format = "csv" /\ parser.state = "rows"
  /\ parser' = [parser EXCEPT !.state = "returned"]
  /\ UNCHANGED <<db, tx, pc, svc, run, nextTracker, adds, faults, issued, pv, session>>

ParseCsv ==
  \/ \E first \in FirstLines : CsvOpen(first)
  \/ /\ parser.format = "csv" /\ parser.state = "rows"
     /\ \E fields \in DataLines(parser.fieldnames) : CsvLine(fields)
  \/ CsvReturn

(* --------------------------- markup parser ----------------------------- *)
\* `elem is None or not elem.text`
NoText(t) == t \in {Absent, None, <<>>}

XmlDateFormatsDayFirst ==
  << <<"-", <<"Y", "m", "d">> >>,
     <<"/", <<"d", "m", "Y">> >>,
     <<"/", <<"m", "d", "Y">> >>,
     <<"/", <<"Y", "m", "d">> >>,
     <<"-", <<"m", "d", "Y">> >>,
     <<"-", <<"d", "m", "Y">> >> >>

\* date_formats of XMLParser._parse_date, in the order they are tried
XmlDateFormats ==
  << <<"-", <<"Y", "m", "d">> >>,
     <<"/", <<"m", "d", "Y">> >>,
     <<"/", <<"d", "m", "Y">> >>,
     <<"/", <<"Y", "m", "d">> >>,
     <<"-", <<"m", "d", "Y">> >>,
     <<"-", <<"d", "m", "Y">> >> >>

\* XMLParser._parse_date
XmlParseDate(errors, date_str, trans_num) ==
  LET d == FirstAccepted(date_str, XmlDateFormats, 1)
  IN [value |-> d,
      errors |-> IF d = None
                   THEN Append(errors, [row |-> trans_num, msg |-> "Invalid date format"])
                   ELSE errors]

\* XMLParser._parse_amount
XmlParseAmount(errors, amount_str, trans_num) ==
  LET cleaned == CleanAmount(amount_str)
  IN IF IsDecimal(cleaned)
       THEN [value |-> cleaned, errors |-> errors]
       ELSE [value |-> None,
             errors |-> Append(errors, [row |-> trans_num, msg |-> "Invalid amount"])]

\* `elem.text.strip() if elem is not None and elem.text else None`
StripOrNone(t) == IF NoText(t) THEN None ELSE Strip(t)

\* XMLParser._parse_transaction; elem gives for each child tag the text of
\* the first child with that tag (None for an empty element), or Absent
XmlParseTransaction(errors, elem, trans_num) ==
  LET Fail(msg) == [transaction |-> <<>>,
                    errors |-> Append(errors, [row |-> trans_num, msg |-> msg])]
      date == XmlParseDate(errors, Strip(elem.date), trans_num)
      amount == XmlParseAmount(errors, Strip(elem.amount), trans_num)
  IN IF NoText(elem.date) THEN Fail("Date is required")
     ELSE IF date.value = None
       THEN [transaction |-> <<>>, errors |-> date.errors]
     ELSE IF NoText(elem.description) THEN Fail("Description is required")
     ELSE IF NoText(elem.amount) THEN Fail("Amount is required")
     ELSE IF amount.value = None
       THEN [transaction |-> <<>>, errors |-> amount.errors]
     ELSE IF NoText(elem.category) THEN Fail("Category is required")
     ELSE [transaction |->
            <<[date |-> date.value, description |-> Strip(elem.description),
               amount |-> amount.value, category |-> Strip(elem.category),
               member |-> StripOrNone(elem.member),
               source |-> StripOrNone(elem.source),
               reference_number |-> StripOrNone(elem.reference_number)]>>,
           errors |-> errors]

\* a transaction element with every required child and no optional one
PlainElement ==
  [date |-> <<"2", "0", "2", "4", "-", "0", "1", "-", "1", "3">>, description |-> <<" ", "a", " ">>, amount |-> <<" ", "5", " ">>,
   category |-> <<"f", "o", "o", "d">>, member |-> Absent, source |-> Absent,
   reference_number |-> Absent]

\* the transaction elements a document may hold: the plain one with up to
\* two children missing, empty, blank or unparsable
Elements ==
  LET tags == {"date", "description", "amount", "category", "member"}
      texts == {Absent, None, <<" ">>, <<" ", "?", " ">>}
  IN {[PlainElement EXCEPT ![f] = v, ![g] = w] :
        f \in tags, g \in tags, v \in texts, w \in texts}
       \cup {PlainElement}

\* XMLParser(file_content).parse() up to the loop: ET.fromstring raises on
\* text that is not well-formed; findall may find no transaction element
XmlOpen(doc) ==
  /\ parser = NoParser
  /\ parser' =
       LET new == [format |-> "xml", state |-> "elements",
                   transactions |-> <<>>, errors |-> <<>>, warnings |-> <<>>,
                   idx |-> 0, last |-> PlainElement]
       IN IF doc = "malformed"
            THEN [new EXCEPT !.state = "returned",
                    !.errors = <<[row |-> 0, msg |-> "XML parsing error"]>>]
          ELSE IF doc = "no transactions"
            THEN [new EXCEPT !.state = "returned",
                    !.errors = <<[row |-> 0, msg |-> "No transactions found in XML file"]>>]
          ELSE new
  /\ UNCHANGED <<db, tx, pc, svc, run, nextTracker, adds, faults, issued, pv, session>>

\* one pass of the loop of parse over the transaction elements
XmlElement(elem) ==
  /\ parser.format = "xml" /\ parser.state = "elements"
  /\ parser.idx < MaxRows
  /\ LET idx == parser.idx + 1
         res == XmlParseTransaction(parser.errors, elem, idx)
     IN parser' = [parser EXCEPT
          !.idx = idx, !.last = elem,
          !.transactions = @ \o res.transaction,
          !.errors = res.errors]
  /\ UNCHANGED <<db, tx, pc, svc, run, nextTracker, adds, faults, issued, pv, session>>

\* the loop is over: parse returns the transactions
XmlReturn ==
  /\ parser.format = "xml" /\ parser.state = "elements"
  /\ parser.idx > 0
  /\ parser' = [parser EXCEPT !.state = "returned"]
  /\ UNCHANGED <<db, tx, pc, svc, run, nextTracker, adds, faults, issued, pv, session>>

ParseXml ==
  \/ \E doc \in {"malformed", "no transactions", "transactions"} : XmlOpen(doc)
  \/ \E elem \in Elements : XmlElement(elem)
  \/ XmlReturn

\* SpecParse: a parser object is made for a text and parse is called
NextParse == ParseCsv \/ ParseXml

SpecParse == Init /\ [][NextParse]_vars

(* ------------------------ interchange parser --------------------------- *)
\* `hasattr(ofx_trans, name) and ofx_trans.name`
Has(t) == ~NoText(t)

\* the sign of Decimal(text)
Sign(t) ==
  LET digits == Without(Without(Without(t, "-"), "+"), ".")
  IN IF \A i \in 1..Len(digits) : digits[i] = "0" THEN 0
     ELSE IF Head(t) = "-" THEN -1 ELSE 1

\* sep.join(parts)
RECURSIVE Join(_, _)
Join(parts, sep) ==
  IF parts = <<>> THEN <<>>
  ELSE IF Len(parts) = 1 THEN parts[1]
  ELSE parts[1] \o sep \o Join(Tail(parts), sep)

\* OFXParser._get_description_text
GetDescriptionText(t) ==
  Join((IF Has(t.payee) THEN <<t.payee>> ELSE <<>>)
         \o (IF Has(t.memo) THEN <<t.memo>> ELSE <<>>), <<" ">>)

ExpenseGroupsUtilitiesFirst ==
  <<[category |-> <<"U", "t", "i", "l", "i", "t", "i", "e", "s">>,
     words |-> {<<"E", "L", "E", "C", "T", "R", "I", "C">>, <<"W", "A", "T", "E", "R">>, <<"G", "A", "S">>, <<"U", "T", "I", "L", "I", "T", "Y">>, <<"C", "O", "M", "C", "A", "S", "T">>, <<"A", "T", "&", "T">>, <<"P", "H", "O", "N", "E">>}],
    [category |-> <<"G", "r", "o", "c", "e", "r", "i", "e", "s">>,
     words |-> {<<"G", "R", "O", "C", "E", "R", "Y">>, <<"K", "R", "O", "G", "E", "R">>, <<"W", "A", "L", "M", "A", "R", "T">>, <<"T", "A", "R", "G", "E", "T">>}],
    [category |-> <<"F", "o", "o", "d", " ", "&", " ", "D", "i", "n", "i", "n", "g">>,
     words |-> {<<"R", "E", "S", "T", "A", "U", "R", "A", "N", "T">>, <<"F", "O", "O", "D">>, <<"C", "A", "F", "E">>, <<"M", "C", "D", "O", "N", "A", "L", "D">>, <<"B", "U", "R", "G", "E", "R">>, <<"P", "I", "Z", "Z", "A">>}],
    [category |-> <<"G", "a", "s", " ", "&", " ", "F", "u", "e", "l">>,
     words |-> {<<"G", "A", "S">>, <<"F", "U", "E", "L">>, <<"E", "X", "X", "O", "N">>, <<"S", "H", "E", "L", "L">>, <<"C", "H", "E", "V", "R", "O", "N">>, <<"M", "O", "B", "I", "L">>}],
    [category |-> <<"H", "e", "a", "l", "t", "h", "c", "a", "r", "e">>,
     words |-> {<<"P", "H", "A", "R", "M", "A", "C", "Y">>, <<"C", "V", "S">>, <<"W", "A", "L", "G", "R", "E", "E", "N">>, <<"M", "E", "D", "I", "C", "A", "L">>, <<"D", "O", "C", "T", "O", "R">>, <<"H", "O", "S", "P", "I", "T", "A", "L">>}],
    [category |-> <<"S", "h", "o", "p", "p", "i", "n", "g">>,
     words |-> {<<"A", "M", "A", "Z", "O", "N">>, <<"E", "B", "A", "Y">>, <<"S", "H", "O", "P", "P", "I", "N", "G">>}]>>

\* the keyword lists of the DEBIT branch of _determine_category, in the
\* order of its if / elif chain
ExpenseGroups ==
  <<[category |-> <<"G", "r", "o", "c", "e", "r", "i", "e", "s">>,
     words |-> {<<"G", "R", "O", "C", "E", "R", "Y">>, <<"K", "R", "O", "G", "E", "R">>, <<"W", "A", "L", "M", "A", "R", "T">>, <<"T", "A", "R", "G", "E", "T">>}],
    [category |-> <<"F", "o", "o", "d", " ", "&", " ", "D", "i", "n", "i", "n", "g">>,
     words |-> {<<"R", "E", "S", "T", "A", "U", "R", "A", "N", "T">>, <<"F", "O", "O", "D">>, <<"C", "A", "F", "E">>, <<"M", "C", "D", "O", "N", "A", "L", "D">>, <<"B", "U", "R", "G", "E", "R">>, <<"P", "I", "Z", "Z", "A">>}],
    [category |-> <<"G", "a", "s", " ", "&", " ", "F", "u", "e", "l">>,
     words |-> {<<"G", "A", "S">>, <<"F", "U", "E", "L">>, <<"E", "X", "X", "O", "N">>, <<"S", "H", "E", "L", "L">>, <<"C", "H", "E", "V", "R", "O", "N">>, <<"M", "O", "B", "I", "L">>}],
    [category |-> <<"H", "e", "a", "l", "t", "h", "c", "a", "r", "e">>,
     words |-> {<<"P", "H", "A", "R", "M", "A", "C", "Y">>, <<"C", "V", "S">>, <<"W", "A", "L", "G", "R", "E", "E", "N">>, <<"M", "E", "D", "I", "C", "A", "L">>, <<"D", "O", "C", "T", "O", "R">>, <<"H", "O", "S", "P", "I", "T", "A", "L">>}],
    [category |-> <<"U", "t", "i", "l", "i", "t", "i", "e", "s">>,
     words |-> {<<"E", "L", "E", "C", "T", "R", "I", "C">>, <<"W", "A", "T", "E", "R">>, <<"G", "A", "S">>, <<"U", "T", "I", "L", "I", "T", "Y">>, <<"C", "O", "M", "C", "A", "S", "T">>, <<"A", "T", "&", "T">>, <<"P", "H", "O", "N", "E">>}],
    [category |-> <<"S", "h", "o", "p", "p", "i", "n", "g">>,
     words |-> {<<"A", "M", "A", "Z", "O", "N">>, <<"E", "B", "A", "Y">>, <<"S", "H", "O", "P", "P", "I", "N", "G">>}]>>

\* `any(word in description for word in words)`
AnyWord(description, words) == \E w \in words : Contains(description, w)

\* the if / elif chain over the keyword lists, from the k-th on
RECURSIVE ExpenseCategory(_, _)
ExpenseCategory(description, k) ==
  IF k > Len(ExpenseGroups) THEN <<"E", "x", "p", "e", "n", "s", "e", "s">>
  ELSE IF AnyWord(description, ExpenseGroups[k].words)
    THEN ExpenseGroups[k].category
  ELSE ExpenseCategory(description, k + 1)

CreditCategoryPaymentFirst(description) ==
  IF AnyWord(description, {<<"P", "A", "Y", "M", "E", "N", "T">>, <<"A", "U", "T", "O", "P", "A", "Y">>}) THEN <<"P", "a", "y", "m", "e", "n", "t">>
  ELSE <<"I", "n", "c", "o", "m", "e">>

\* the CREDIT branch of _determine_category
CreditCategory(description) ==
  IF AnyWord(description, {<<"D", "E", "P", "O", "S", "I", "T">>, <<"P", "A", "Y", "C", "H", "E", "C", "K">>, <<"S", "A", "L", "A", "R", "Y">>}) THEN <<"I", "n", "c", "o", "m", "e">>
  ELSE IF AnyWord(description, {<<"P", "A", "Y", "M", "E", "N", "T">>, <<"A", "U", "T", "O", "P", "A", "Y">>}) THEN <<"P", "a", "y", "m", "e", "n", "t">>
  ELSE <<"I", "n", "c", "o", "m", "e">>

\* OFXParser._determine_category
DetermineCategory(t) ==
  LET trans_type == IF Has(t.type) THEN Upper(t.type) ELSE None
      amount == Sign(t.amount)
      description == Upper(GetDescriptionText(t))
  IN IF trans_type = <<"C", "H", "E", "C", "K">> THEN <<"C", "h", "e", "c", "k">>
     ELSE IF trans_type = <<"D", "E", "B", "I", "T">> \/ amount < 0
       THEN ExpenseCategory(description, 1)
     ELSE IF trans_type = <<"C", "R", "E", "D", "I", "T">> \/ amount > 0
       THEN CreditCategory(description)
     ELSE IF amount < 0 THEN <<"E", "x", "p", "e", "n", "s", "e", "s">> ELSE <<"I", "n", "c", "o", "m", "e">>

\* the description built by _parse_transaction
BuildDescription(t) ==
  LET payee == IF Has(t.payee) THEN <<Strip(t.payee)>> ELSE <<>>
      memo == Strip(t.memo)
      described ==
        IF Has(t.memo) /\ (payee = <<>> \/ ~Contains(payee[1], memo))
          THEN Append(payee, memo) ELSE payee
      description_parts ==
        IF described = <<>> /\ Has(t.type) THEN <<t.type>> ELSE described
  IN IF description_parts # <<>>
       THEN Join(description_parts, <<" ", "-", " ">>)
       ELSE <<"T", "r", "a", "n", "s", "a", "c", "t", "i", "o", "n">>

\* the reference number: the id, else the check number, else empty
ReferenceNumber(t) ==
  IF Has(t.id) THEN t.id
  ELSE IF Has(t.checknum) THEN <<"C", "H", "E", "C", "K", "-">> \o t.checknum
  ELSE <<>>

\* OFXParser._parse_transaction; t gives each attribute of the transaction
\* object: a text, a date <<year, month, day>>, None, or Absent
OfxParseTransaction(errors, t, trans_num) ==
  LET Fail(msg) == [transaction |-> <<>>,
                    errors |-> Append(errors, [row |-> trans_num, msg |-> msg])]
  IN IF NoText(t.date) THEN Fail("Date is required")
     ELSE IF t.amount \in {Absent, None} THEN Fail("Amount is required")
     ELSE IF ~IsDecimal(t.amount) THEN Fail("Invalid amount")
     ELSE [transaction |->
            <<[date |-> t.date, amount |-> t.amount,
               description |-> BuildDescription(t),
               category |-> DetermineCategory(t),
               reference_number |-> ReferenceNumber(t),
               member |-> None, source |-> None]>>,
           errors |-> errors]

\* a transaction object with every attribute the parser reads
PlainTransaction ==
  [date |-> <<2024, 1, 13>>, amount |-> <<"5">>, payee |-> <<"A", "c", "m", "e">>, memo |-> Absent,
   type |-> <<"c", "r", "e", "d", "i", "t">>, id |-> <<"7">>, checknum |-> Absent]

\* payee and memo pairs: each keyword list alone, two lists at once in
\* either attribute, mixed case, a keyword split over the two attributes
PayeeMemos ==
  {<<<<"K", "r", "o", "g", "e", "r">>, Absent>>, <<<<"P", "i", "z", "z", "a">>, None>>, <<<<"c", "a", "f", "e">>, <<"T", "A", "R", "G", "E", "T">>>>,
   <<<<"S", "h", "e", "l", "l", " ", "g", "a", "s">>, Absent>>, <<<<"c", "v", "s">>, <<"f", "u", "e", "l">>>>, <<<<"W", "a", "t", "e", "r">>, <<"d", "o", "c", "t", "o", "r">>>>,
   <<<<"e", "B", "a", "y">>, <<"A", "T", "&", "T">>>>, <<Absent, <<"A", "m", "a", "z", "o", "n">>>>, <<<<"g", "r", "o">>, <<"c", "e", "r", "y">>>>,
   <<<<"A", "c", "m", "e">>, <<"P", "A", "Y", "C", "H", "E", "C", "K", " ", "D", "E", "P", "O", "S", "I", "T">>>>, <<<<"a", "u", "t", "o", "p", "a", "y">>, Absent>>,
   <<<<"s", "a", "l", "a", "r", "y", " ", "p", "a", "y", "m", "e", "n", "t">>, <<>>>>, <<Absent, Absent>>}

\* the transaction objects a statement may hold: every combination of absent,
\* empty, blank and present payee, memo and type; every combination of type,
\* sign of the amount and keyword texts; missing date, amount and identifiers
OfxTransactions ==
  {[PlainTransaction EXCEPT !.payee = p, !.memo = m, !.type = ty] :
      p \in {Absent, <<>>, <<" ">>, <<" ", "K", "r", "o", "g", "e", "r", " ", "s", "t", "o", "r", "e", " ">>},
      m \in {Absent, <<>>, <<" ">>, <<"K", "r", "o", "g", "e", "r">>, <<" ", "c", "a", "f", "e", " ">>},
      ty \in {Absent, <<>>, <<" ">>, <<"d", "e", "b", "i", "t">>}}
    \cup
  {[PlainTransaction EXCEPT !.payee = pm[1], !.memo = pm[2], !.type = ty,
                            !.amount = a] :
      pm \in PayeeMemos,
      ty \in {None, <<"c", "h", "e", "c", "k">>, <<"d", "e", "b", "i", "t">>, <<"c", "r", "e", "d", "i", "t">>, <<"o", "t", "h", "e", "r">>},
      a \in {<<"-", "5">>, <<"0">>, <<"5", ".", "5", "0">>}}
    \cup
  {[PlainTransaction EXCEPT !.date = d] : d \in {Absent, None}}
    \cup
  {[PlainTransaction EXCEPT !.amount = a] : a \in {Absent, None, <<"x">>}}
    \cup
  {[PlainTransaction EXCEPT !.id = i, !.checknum = c] :
      i \in {Absent, <<>>}, c \in {Absent, <<"1", "2">>}}

\* OFXParser(file_content).parse() up to the loop: the library raises on a
\* text it cannot read; the statement may lack an account, a statement or
\* transactions
OfxOpen(doc) ==
  /\ parser = NoParser
  /\ parser' =
       LET new == [format |-> "ofx", state |-> "transactions",
                   transactions |-> <<>>, errors |-> <<>>, warnings |-> <<>>,
                   idx |-> 0, last |-> PlainTransaction]
           Stop(msg) == [new EXCEPT !.state = "returned",
                           !.errors = <<[row |-> 0, msg |-> msg]>>]
       IN IF doc = "malformed" THEN Stop("OFX parsing error")
          ELSE IF doc = "no account"
            THEN Stop("No account information found in OFX file")
          ELSE IF doc = "no statement"
            THEN Stop("No statement information found in OFX file")
          ELSE IF doc = "no transactions"
            THEN [new EXCEPT !.state = "returned",
                    !.warnings = <<"No transactions found in statement">>]
          ELSE new
  /\ UNCHANGED <<db, tx, pc, svc, run, nextTracker, adds, faults, issued, pv, session>>

\* one pass of the loop of parse over the transactions of the statement
OfxTransaction(t) ==
  /\ parser.format = "ofx" /\ parser.state = "transactions"
  /\ parser.idx < MaxRows
  /\ LET idx == parser.idx + 1
         res == OfxParseTransaction(parser.errors, t, idx)
     IN parser' = [parser EXCEPT
          !.idx = idx, !.last = t,
          !.transactions = @ \o res.transaction,
          !.errors = res.errors]
  /\ UNCHANGED <<db, tx, pc, svc, run, nextTracker, adds, faults, issued, pv, session>>

\* the loop is over: parse returns the transactions
OfxReturn ==
  /\ parser.format = "ofx" /\ parser.state = "transactions"
  /\ parser.idx > 0
  /\ parser' = [parser EXCEPT !.state = "returned"]
  /\ UNCHANGED <<db, tx, pc, svc, run, nextTracker, adds, faults, issued, pv, session>>

\* SpecOfx: a parser object is made for an interchange text and parse is
\* called
ParseOfx ==
  \/ \E doc \in {"malformed", "no account", "no statement", "no transactions",
                 "transactions"} : OfxOpen(doc)
  \/ \E t \in OfxTransactions : OfxTransaction(t)
  \/ OfxReturn

SpecOfx == Init /\ [][ParseOfx]_vars

(* ----------------------- parse called repeatedly ----------------------- *)
\* at most this many calls of parse on one parser object
MaxCalls == 2

\* the sequences over S of length at most n
RECURSIVE SeqsUpTo(_, _)
SeqsUpTo(S, n) ==
  IF n = 0 THEN {<<>>}
  ELSE LET shorter == SeqsUpTo(S, n - 1)
       IN shorter \cup {Append(q, x) : q \in shorter, x \in S}

\* a text of a data line that parses, by column
GoodText(header) ==
  LET h == Strip(Lower(header))
  IN IF h = <<"d", "a", "t", "e">> THEN <<"1", "3", "/", "0", "1", "/", "2", "0", "2", "4">>
     ELSE IF h = <<"d", "e", "s", "c", "r", "i", "p", "t", "i", "o", "n">> THEN <<" ", "a", " ">>
     ELSE IF h = <<"a", "m", "o", "u", "n", "t">> THEN <<"-", "$", "1", ",", "0", "0", "0", ".", "5", "0">>
     ELSE IF h = <<"c", "a", "t", "e", "g", "o", "r", "y">> THEN <<"f", "o", "o", "d">>
     ELSE <<"a", "n", "n">>

\* the data lines of a text that is parsed more than once: a blank line, a
\* line that parses with at most one of its fields changed, the line that
\* parses without its last field and with one field more
RepeatLines(fieldnames) ==
  LET good == [i \in 1..Len(fieldnames) |-> GoodText(fieldnames[i])]
  IN {<<>>, good, SubSeq(good, 1, Len(good) - 1), Append(good, <<"x">>)}
       \cup UNION {{[good EXCEPT ![i] = v] : v \in FieldTexts(fieldnames[i])} :
                      i \in 1..Len(fieldnames)}

\* the delimited texts: a first line and the lines after it
CsvTexts ==
  UNION {{[first |-> first, lines |-> lines] :
            lines \in IF first \in {None, <<>>} THEN {<<>>}
                      ELSE SeqsUpTo(RepeatLines(first), MaxRows)} :
         first \in FirstLines}

\* the markup texts: not well-formed, or the transaction elements found
XmlTexts ==
  LET tags == {"date", "description", "amount", "category", "member"}
      texts == {Absent, None, <<" ">>, <<" ", "?", " ">>}
      elements == {[PlainElement EXCEPT ![f] = v] : f \in tags, v \in texts}
                    \cup {PlainElement}
  IN {[doc |-> "malformed", elements |-> <<>>]}
       \cup {[doc |-> "well-formed", elements |-> e] :
               e \in SeqsUpTo(elements, MaxRows)}

\* the one element of a singleton set; `Only({F(x) : x \in {e}})` is F(e)
\* with e evaluated once
Only(S) == CHOOSE x \in S : TRUE

\* one pass of the loop of CSVParser.parse: acc holds the transactions,
\* self.errors and the row number so far
CsvRow(fieldnames, fields, acc) ==
  LET row_num == acc.row_num + 1
  IN Only({[transactions |-> acc.transactions \o res.transaction,
            errors |-> IF res.raised
                         THEN Append(acc.errors, [row |-> row_num, msg |-> "exception"])
                         ELSE res.errors,
            row_num |-> row_num] :
           res \in {CsvParseRow(acc.errors, DictRow(fieldnames, fields), row_num)}})

\* the loop of CSVParser.parse over the lines from the k-th on; DictReader
\* passes over blank lines
RECURSIVE CsvRows(_, _, _, _)
CsvRows(fieldnames, lines, k, acc) ==
  IF k > Len(lines) THEN acc
  ELSE IF lines[k] = <<>> THEN CsvRows(fieldnames, lines, k + 1, acc)
  ELSE Only({CsvRows(fieldnames, lines, k + 1, next) :
               next \in {CsvRow(fieldnames, lines[k], acc)}})

\* CSVParser.parse on the object self: the list returned, and self.errors
\* and self.warnings after the call
CsvParse(self, text) ==
  LET Stop(msg) == [transactions |-> <<>>,
                    errors |-> Append(self.errors, [row |-> 0, msg |-> msg]),
                    warnings |-> self.warnings]
  IN IF text.first = None \/ text.first = <<>>
       THEN Stop("CSV file is empty or has no headers")
     ELSE IF ~(ExpectedHeaders \subseteq Headers(text.first))
       THEN Stop("Missing required columns")
     ELSE Only({[transactions |-> rows.transactions, errors |-> rows.errors,
                 warnings |-> self.warnings] :
                rows \in {CsvRows(text.first, text.lines, 1,
                            [transactions |-> <<>>, errors |-> self.errors,
                             row_num |-> 1])}})

\* the loop of XMLParser.parse over the elements from the k-th on
RECURSIVE XmlElements(_, _, _)
XmlElements(elements, k, acc) ==
  IF k > Len(elements) THEN acc
  ELSE Only({XmlElements(elements, k + 1,
                [transactions |-> acc.transactions \o res.transaction,
                 errors |-> res.errors]) :
             res \in {XmlParseTransaction(acc.errors, elements[k], k)}})

\* XMLParser.parse on the object self
XmlParse(self, text) ==
  LET Stop(msg) == [transactions |-> <<>>,
                    errors |-> Append(self.errors, [row |-> 0, msg |-> msg]),
                    warnings |-> self.warnings]
  IN IF text.doc = "malformed" THEN Stop("XML parsing error")
     ELSE IF text.elements = <<>> THEN Stop("No transactions found in XML file")
     ELSE Only({[transactions |-> all.transactions, errors |-> all.errors,
                 warnings |-> self.warnings] :
                all \in {XmlElements(text.elements, 1,
                           [transactions |-> <<>>, errors |-> self.errors])}})

\* CSVParser(file_content) or XMLParser(file_content): errors and warnings
\* start empty; calls keeps what each call of parse returned and left in
\* get_errors() and get_warnings()
NewParser == [errors |-> <<>>, warnings |-> <<>>, calls |-> <<>>]

\* two parser objects are made for one text
MakeParsers(format, text) ==
  /\ parser = NoParser
  /\ parser' = [format |-> format, state |-> "objects", text |-> text,
                objects |-> <<NewParser, NewParser>>]
  /\ UNCHANGED <<db, tx, pc, svc, run, nextTracker, adds, faults, issued, pv, session>>

\* parse is called on the i-th object
CallParse(i) ==
  /\ parser.format \in {"csv", "xml"} /\ parser.state = "objects"
  /\ Len(parser.objects[i].calls) < MaxCalls
  /\ \E res \in {IF parser.format = "csv"
                     THEN CsvParse(parser.objects[i], parser.text)
                     ELSE XmlParse(parser.objects[i], parser.text)} :
       parser' = [parser EXCEPT !.objects[i] =
         [errors |-> res.errors, warnings |-> res.warnings,
          calls |-> Append(@.calls, res)]]
  /\ UNCHANGED <<db, tx, pc, svc, run, nextTracker, adds, faults, issued, pv, session>>

\* SpecRepeat: parser objects for one text, parse called on them in any order
NextRepeat ==
  \/ \E text \in CsvTexts : MakeParsers("csv", text)
  \/ \E text \in XmlTexts : MakeParsers("xml", text)
  \/ \E i \in 1..2 : CallParse(i)

SpecRepeat == Init /\ [][NextRepeat]_vars

(* --------------------------- date resolution --------------------------- *)
\* the numbers a date text is made of
DateParts == {<<"0">>, <<"1">>, <<"0", "1">>, <<"0", "2">>, <<"1", "3">>, <<"2", "9">>, <<"3", "1">>, <<"2", "4">>, <<"2", "0", "2", "3">>, <<"2", "0", "2", "4">>}

\* the date texts handed to _parse_date: three numbers joined by hyphens or
\* by slashes, and texts of another shape
DateTexts ==
  {a \o sep \o b \o sep \o c :
     a \in DateParts, b \in DateParts, c \in DateParts, sep \in {<<"-">>, <<"/">>}}
    \cup {<<>>, <<"x">>, <<"2", "0", "2", "4", "-", "0", "1">>, <<"2", "0", "2", "4", ".", "0", "1", ".", "0", "2">>, <<"2", "0", "2", "4", "-", "0", "1", "/", "0", "2">>, <<"0", "1", "-", "0", "2", "/", "2", "0", "2", "4">>,
          <<"2", "0", "2", "4", "-", "0", "1", "-", "0", "2", "-", "0", "3">>, <<"0", "1", "/", "0", "2", "/", "2", "0", "2", "4", "x">>, <<"1", "a", "/", "0", "2", "/", "2", "0", "2", "4">>}

\* a row or an element carries the date text date_str
DateGiven(date_str) ==
  /\ parser = NoParser
  /\ parser' = [format |-> "dates", state |-> "given", date_str |-> date_str,
                csv |-> <<>>, xml |-> <<>>]
  /\ UNCHANGED <<db, tx, pc, svc, run, nextTracker, adds, faults, issued, pv, session>>

\* CSVParser._parse_date is called on the text, for row 2
CsvDate ==
  /\ parser.format = "dates" /\ parser.csv = <<>>
  /\ parser' = [parser EXCEPT !.csv = <<CsvParseDate(<<>>, parser.date_str, 2)>>]
  /\ UNCHANGED <<db, tx, pc, svc, run, nextTracker, adds, faults, issued, pv, session>>

\* XMLParser._parse_date is called on the text, for element 1
XmlDate ==
  /\ parser.format = "dates" /\ parser.xml = <<>>
  /\ parser' = [parser EXCEPT !.xml = <<XmlParseDate(<<>>, parser.date_str, 1)>>]
  /\ UNCHANGED <<db, tx, pc, svc, run, nextTracker, adds, faults, issued, pv, session>>

\* SpecDate: one date text resolved by both parsers
NextDate ==
  \/ \E date_str \in DateTexts : DateGiven(date_str)
  \/ CsvDate
  \/ XmlDate

SpecDate == Init /\ [][NextDate]_vars

(* ---------------------- markup documents as trees ---------------------- *)
\* the depth below the root and the children of an element
MaxDepth == 2

MaxChildren == 2

\* a transaction element that lacks the date child
DatelessElement == [PlainElement EXCEPT !.date = Absent]

\* the elements of a well-formed document, d levels deep: an element has a
\* tag, the texts of its field children (for a transaction element) and its
\* other child elements in document order
RECURSIVE Trees(_)
Trees(d) ==
  LET children == IF d = 0 THEN {<<>>} ELSE SeqsUpTo(Trees(d - 1), MaxChildren)
  IN {[tag |-> "transactions", elem |-> PlainElement, children |-> c] :
        c \in children}
       \cup {[tag |-> "transaction", elem |-> e, children |-> c] :
               e \in {PlainElement, DatelessElement}, c \in children}

\* the elements of the sequences of a sequence, in order
RECURSIVE Flatten(_)
Flatten(seqs) == IF seqs = <<>> THEN <<>> ELSE Head(seqs) \o Flatten(Tail(seqs))

\* the elements below an element, on all levels, in document order
RECURSIVE Below(_)
Below(node) ==
  Flatten([i \in 1..Len(node.children) |->
             <<node.children[i]>> \o Below(node.children[i])])

\* root.findall('.//transaction'): the elements below the root with the tag
FindAll(root) == SelectSeq(Below(root), LAMBDA n : n.tag = "transaction")

\* XMLParser(file_content).parse() on a well-formed document, up to the loop
TreeOpen(root) ==
  /\ parser = NoParser
  /\ parser' =
       LET new == [format |-> "xml", state |-> "found", root |-> root,
                   found |-> FindAll(root), transactions |-> <<>>,
                   errors |-> <<>>, warnings |-> <<>>, idx |-> 0]
       IN IF new.found = <<>>
            THEN [new EXCEPT !.state = "returned",
                    !.errors = <<[row |-> 0, msg |-> "No transactions found in XML file"]>>]
            ELSE new
  /\ UNCHANGED <<db, tx, pc, svc, run, nextTracker, adds, faults, issued, pv, session>>

\* one pass of the loop of parse over the elements found
TreeElement ==
  /\ parser.format = "xml" /\ parser.state = "found"
  /\ parser.idx < Len(parser.found)
  /\ LET idx == parser.idx + 1
     IN \E res \in {XmlParseTransaction(parser.errors, parser.found[idx].elem, idx)} :
          parser' = [parser EXCEPT
            !.idx = idx,
            !.transactions = @ \o res.transaction,
            !.errors = res.errors]
  /\ UNCHANGED <<db, tx, pc, svc, run, nextTracker, adds, faults, issued, pv, session>>

\* the loop is over: parse returns the transactions
TreeReturn ==
  /\ parser.format = "xml" /\ parser.state = "found"
  /\ parser.idx = Len(parser.found)
  /\ parser' = [parser EXCEPT !.state = "returned"]
  /\ UNCHANGED <<db, tx, pc, svc, run, nextTracker, adds, faults, issued, pv, session>>

\* SpecTree: the markup parser on a well-formed document
NextTree ==
  \/ \E root \in Trees(MaxDepth) : TreeOpen(root)
  \/ TreeElement
  \/ TreeReturn

SpecTree == Init /\ [][NextTree]_vars

(* ------------------- from the parsers to the import -------------------- *)
\* a text as one string
RECURSIVE Str(_)
Str(t) == IF t = <<>> THEN "" ELSE Head(t) \o Str(Tail(t))

\* Decimal(text) in hundredths, for a text of at most two decimals
Cents(t) ==
  LET body == IF Head(t) \in {"-", "+"} THEN Tail(t) ELSE t
      parts == Split(body, ".")
      frac == IF Len(parts) = 1 THEN <<>> ELSE parts[2]
      value == 100 * Number(parts[1]) + Number(SubSeq(frac \o <<"0", "0">>, 1, 2))
  IN IF Head(t) = "-" THEN 0 - value ELSE value

\* a date as a number that grows with the date
DayNumber(date) == 372 * (date[1] - 2024) + 31 * (date[2] - 1) + date[3]

\* a parsed record as bulk_upload stores it in the session and
\* bulk_upload_confirm hands it to the import: the date and the amount go
\* through their text form and back; member and source None are written ""
\* (the import tests them for truth only); reference_number None stays None
PendingRecord(t) ==
  [date |-> DayNumber(t.date), amount |-> Cents(t.amount),
   description |-> Str(t.description), category |-> Str(t.category),
   member |-> IF t.member = None THEN "" ELSE Str(t.member),
   source |-> IF t.source = None THEN "" ELSE Str(t.source),
   reference_number |-> IF t.reference_number = None THEN Null
                        ELSE Str(t.reference_number)]

\* a parser has returned the one record t
Emitted(format, t) ==
  /\ parser = NoParser
  /\ parser' = [format |-> format, state |-> "emitted", record |-> t]
  /\ UNCHANGED <<db, tx, pc, svc, run, nextTracker, adds, faults, issued, pv, session>>

\* CSVParser.parse on a header and one data line with a field per header
CsvEmit(fieldnames, fields) ==
  \E res \in {CsvParseRow(<<>>, DictRow(fieldnames, fields), 2)} :
    /\ res.transaction # <<>>
    /\ Emitted("csv", res.transaction[1])

\* XMLParser.parse on a document with one transaction element
XmlEmit(elem) ==
  \E res \in {XmlParseTransaction(<<>>, elem, 1)} :
    /\ res.transaction # <<>>
    /\ Emitted("xml", res.transaction[1])

\* OFXParser.parse on a statement with one transaction
OfxEmit(t) ==
  \E res \in {OfxParseTransaction(<<>>, t, 1)} :
    /\ res.transaction # <<>>
    /\ Emitted("ofx", res.transaction[1])

\* bulk_upload_confirm imports the record a parser has returned
StartEmitted ==
  /\ parser.format \in {"csv", "xml", "ofx"}
  /\ parser.state = "emitted"
  /\ \E b \in Budgets : Begin(1, b, <<PendingRecord(parser.record)>>)

\* SpecEmit: one record from a parser, imported by one request at a time
NextEmit ==
  \/ \E fieldnames \in {f \in FirstLines :
                          f \notin {None, <<>>} /\ ExpectedHeaders \subseteq Headers(f)} :
       \E fields \in FullLines(fieldnames) : CsvEmit(fieldnames, fields)
  \/ \E elem \in Elements : XmlEmit(elem)
  \/ \E t \in OfxTransactions : OfxEmit(t)
  \/ StartEmitted
  \/ ProcessRecord(1)
  \/ Finish(1)
  \/ Commit(1)
  \/ StorageFault(1)
  \/ EndRequest(1)

SpecEmit == Init /\ [][NextEmit]_vars

(* ------------------- a second call on one service ---------------------- *)
\* import_transactions called again on the service object of a call that has
\* returned or raised: only stats["total"] is assigned anew, the other
\* counters, the two lists and the in-memory budget stay as the earlier call
\* left them
Reinvoke(e, recs) ==
  /\ pc[e] \in {"done", "aborted"}
  /\ \A o \in Engines \ {e} : pc[o] = "idle"
  /\ nextTracker <= MaxRuns
  /\ svc' = [svc EXCEPT ![e].stats.total = Len(recs)]
  /\ tx' = [tx EXCEPT ![e] =
       [EmptyTx EXCEPT !.trackers =
          {[id |-> nextTracker, budget |-> svc[e].budget,
            items_imported |-> 0, duplicates_found |-> 0]}]]
  /\ run' = [run EXCEPT ![e] =
       [records |-> recs, todo |-> recs, idx |-> 0, tracker |-> nextTracker,
        success |-> FALSE, pre |-> db, issued0 |-> issued[svc[e].budget],
        projected |-> -1]]
  /\ nextTracker' = nextTracker + 1
  /\ pc' = [pc EXCEPT ![e] = "loop"]
  /\ UNCHANGED <<db, adds, faults, issued, pv, parser, session>>

ImportAgain == \E recs \in RecordLists : Reinvoke(1, recs)

\* SpecAgain: one caller that may use its service object twice
NextAgain ==
  \/ StartImport
  \/ ProcessRecord(1)
  \/ Finish(1)
  \/ Commit(1)
  \/ StorageFault(1)
  \/ EndRequest(1)
  \/ ImportAgain

SpecAgain == Init /\ [][NextAgain]_vars

(* --------------- two imports of one list into one budget --------------- *)
\* two bulk_upload_confirm requests for the same pending records and budget,
\* which holds none of the records: each loads the budget, constructs its
\* service and creates its tracker
StartBoth(b, recs) ==
  /\ \A e \in Engines : pc[e] = "idle"
  /\ nextTracker + 1 <= MaxRuns
  /\ \A k \in 1..Len(recs) : ~IsDuplicate(db, b, recs[k])
  /\ svc' = [e \in Engines |->
       [NewService(b, db.seq[b]) EXCEPT !.stats.total = Len(recs)]]
  /\ tx' = [e \in Engines |->
       [EmptyTx EXCEPT !.trackers =
          {[id |-> nextTracker + e - 1, budget |-> b,
            items_imported |-> 0, duplicates_found |-> 0]}]]
  /\ run' = [e \in Engines |->
       [records |-> recs, todo |-> recs, idx |-> 0,
        tracker |-> nextTracker + e - 1, success |-> FALSE, pre |-> db,
        issued0 |-> issued[b], projected |-> -1]]
  /\ pv' = NoPreview
  /\ nextTracker' = nextTracker + 2
  /\ pc' = [e \in Engines |-> "loop"]
  /\ UNCHANGED <<db, adds, faults, issued, parser, session>>

\* the loop body up to the category: _is_duplicate has answered False from
\* what this transaction sees now, and the record has a category; the
\* statements that follow have not run yet
PassChecks(e) ==
  /\ Quiet
  /\ pc[e] = "loop"
  /\ run[e].todo # <<>>
  /\ ~IsDuplicate(View(e), svc[e].budget, Head(run[e].todo))
  /\ ~NoCategory(Head(run[e].todo).category)
  /\ pc' = [pc EXCEPT ![e] = "checked"]
  /\ UNCHANGED <<db, tx, svc, run, nextTracker, adds, faults, issued, pv, parser, session>>

\* the rest of the loop body, run after the checks have passed; the
\* duplicate check is not made again
CreateChecked(e) ==
  /\ Quiet
  /\ pc[e] = "checked"
  /\ CreateItem(e)
  /\ run' = [run EXCEPT ![e].idx = @ + 1, ![e].todo = Tail(@)]
  /\ pc' = [pc EXCEPT ![e] = "loop"]
  /\ UNCHANGED <<db, nextTracker, adds, pv, parser, session>>

StartTwice == \E b \in Budgets, recs \in RecordLists : StartBoth(b, recs)

\* SpecOvertake: two requests import the same records into the same budget;
\* either may be anywhere in its loop body when the other commits
NextOvertake ==
  \/ StartTwice
  \/ \E e \in Engines : ProcessRecord(e)
  \/ \E e \in Engines : PassChecks(e)
  \/ \E e \in Engines : CreateChecked(e)
  \/ \E e \in Engines : Finish(e)
  \/ \E e \in Engines : Commit(e)
  \/ \E e \in Engines : StorageFault(e)
  \/ \E e \in Engines : EndRequest(e)

SpecOvertake == Init /\ [][NextOvertake]_vars

(* ------------------ upload, preview, confirm, cancel ------------------- *)
\* bulk_upload after parser.parse(): with any parse error, or without a
\* record, it redirects and the session is left as it was; otherwise the
\* records replace request.session["pending_import"]
Upload(b, transactions, errors) ==
  /\ session.uploads < MaxUploads
  /\ session' =
       IF errors # <<>> \/ transactions = <<>>
         THEN [session EXCEPT !.uploads = @ + 1,
                              !.parse_errors = Len(errors)]
         ELSE [session EXCEPT
                 !.uploads = @ + 1,
                 !.parse_errors = 0,
                 !.pending = [budget |-> b,
                              transactions |->
                                [k \in 1..Len(transactions) |->
                                   PendingRecord(transactions[k])],
                              upload |-> session.uploads + 1]]
  /\ UNCHANGED <<db, tx, pc, svc, run, nextTracker, adds, faults, issued, pv,
                 parser>>

\* the header of an uploaded delimited-text file
UploadedHeader ==
  <<<<"d", "a", "t", "e">>, <<"d", "e", "s", "c", "r", "i", "p", "t", "i", "o", "n">>, <<"a", "m", "o", "u", "n", "t">>, <<"c", "a", "t", "e", "g", "o", "r", "y">>>>

\* its data line: a description, an amount and a category, after a date
\* that is empty, valid or invalid
UploadedLines ==
  {fields \in FullLines(UploadedHeader) :
     /\ fields[2] = <<" ", "a", " ">>
     /\ fields[3] = <<"-", "$", "1", ",", "0", "0", "0", ".", "5", "0">>
     /\ fields[4] = <<"f", "o", "o", "d">>}

\* the transaction element of an uploaded markup file: the plain one, with
\* a reference number, without a date, with an empty category
UploadedElements ==
  {PlainElement, [PlainElement EXCEPT !.reference_number = <<"7">>],
   [PlainElement EXCEPT !.date = Absent],
   [PlainElement EXCEPT !.category = None]}

\* bulk_upload of a delimited-text file: a header and one data line
UploadCsv ==
  \E b \in Budgets, fields \in UploadedLines :
    \E res \in {CsvParseRow(<<>>, DictRow(UploadedHeader, fields), 2)} :
      Upload(b, res.transaction, res.errors)

\* bulk_upload of a markup file with one transaction element
UploadXml ==
  \E b \in Budgets, elem \in UploadedElements :
    \E res \in {XmlParseTransaction(<<>>, elem, 1)} :
      Upload(b, res.transaction, res.errors)

\* bulk_upload_preview: shown only for the pending import of this budget
PreviewStored ==
  /\ session.pending # NoPending
  /\ Preview(session.pending.budget, session.pending.transactions,
             PreviewLimitDefault)

\* bulk_upload_confirm up to the creation of the tracker: the request reads
\* the pending import of the session, which must be for budget b, and enters
\* import_transactions with its records
Confirm(e, b) ==
  /\ Quiet
  /\ pc[e] = "idle"
  /\ nextTracker <= MaxRuns
  /\ session.pending # NoPending
  /\ session.pending.budget = b
  /\ svc' = [svc EXCEPT ![e] =
       [NewService(b, db.seq[b]) EXCEPT
          !.stats.total = Len(session.pending.transactions)]]
  /\ tx' = [tx EXCEPT ![e] =
       [EmptyTx EXCEPT !.trackers =
          {[id |-> nextTracker, budget |-> b,
            items_imported |-> 0, duplicates_found |-> 0]}]]
  /\ run' = [run EXCEPT ![e] =
       [records |-> session.pending.transactions,
        todo |-> session.pending.transactions, idx |-> 0,
        tracker |-> nextTracker, success |-> FALSE, pre |-> db,
        issued0 |-> issued[b], projected |-> -1]]
  /\ session' = [session EXCEPT !.held[e] = session.pending.upload]
  /\ pv' = NoPreview
  /\ nextTracker' = nextTracker + 1
  /\ pc' = [pc EXCEPT ![e] = "loop"]
  /\ UNCHANGED <<db, adds, faults, issued, parser>>

\* the rest of bulk_upload_confirm and its response: after the import has
\* returned, the request deletes the pending import from its session, which
\* is saved with the response; after an exception the session is untouched
Respond(e) ==
  /\ pc[e] \in {"done", "aborted"}
  /\ session.held[e] # 0
  /\ pc' = [pc EXCEPT ![e] = "idle"]
  /\ svc' = [svc EXCEPT ![e] = NoService]
  /\ run' = [run EXCEPT ![e] = NoRun]
  /\ session' =
       IF pc[e] = "done"
         THEN [session EXCEPT !.pending = NoPending, !.held[e] = 0,
                              !.committed[session.held[e]] = @ + 1]
         ELSE [session EXCEPT !.held[e] = 0]
  /\ UNCHANGED <<db, tx, nextTracker, adds, faults, issued, pv, parser>>

\* bulk_upload_cancel
Cancel ==
  /\ session.pending # NoPending
  /\ session' = [session EXCEPT !.pending = NoPending]
  /\ UNCHANGED <<db, tx, pc, svc, run, nextTracker, adds, faults, issued, pv,
                 parser>>

\* SpecFlow: the requests of one browser session, two at a time
NextFlow ==
  \/ UploadCsv
  \/ UploadXml
  \/ PreviewStored
  \/ \E e \in Engines, b \in Budgets : Confirm(e, b)
  \/ \E e \in Engines : ProcessRecord(e)
  \/ \E e \in Engines : Finish(e)
  \/ \E e \in Engines : Commit(e)
  \/ \E e \in Engines : StorageFault(e)
  \/ \E e \in Engines : Respond(e)
  \/ Cancel

SpecFlow == Init /\ [][NextFlow]_vars

\* SpecFlowSerial: the same requests, one at a time
NextFlowSerial ==
  \/ UploadCsv
  \/ UploadXml
  \/ PreviewStored
  \/ \E b \in Budgets : Confirm(1, b)
  \/ ProcessRecord(1)
  \/ Finish(1)
  \/ Commit(1)
  \/ StorageFault(1)
  \/ Respond(1)
  \/ Cancel

SpecFlowSerial == Init /\ [][NextFlowSerial]_vars

(* ------------------------------ properties ----------------------------- *)
\* j comes no later than i in (date ascending, sequence_number ascending)
UpTo(j, i) == j.date < i.date \/ (j.date = i.date /\ j.seq <= i.seq)

BalancesExact(d, b) ==
  \A i \in ItemsOf(d, b) :
    i.rb = SumAmounts({j \in ItemsOf(d, b) : UpTo(j, i)})

\* C1: when an import run has completed, every item of the target budget
\* (older ones as well as the new ones) carries as running_balance the sum of
\* the amounts of all the budget's items up to and including it in
\* (date, sequence_number) order.
C1_BalancesAfterImport ==
  \A e \in Engines : pc[e] = "done" => BalancesExact(db, svc[e].budget)

\* a completed run into a budget that holds an added item and two imported
\* ones, one of the imported ones dated before an item with a smaller
\* sequence number
C1_Witness ==
  \E e \in Engines :
    /\ pc[e] = "done"
    /\ svc[e].stats.imported = 2
    /\ \E i, j, k \in ItemsOf(db, svc[e].budget) :
         /\ ~i.imported /\ j.imported /\ k.imported /\ j # k
         /\ i.seq < k.seq /\ k.date < i.date
         /\ k.rb = k.amount /\ i.rb # i.amount

\* engine e processes its next record in this step
Processes(e) ==
  /\ pc[e] = "loop"
  /\ run[e].todo # <<>>
  /\ run'[e].idx = run[e].idx + 1

\* the target budget, as the run sees it, holds an item with r's date,
\* amount and description
HoldsSame(e, r) ==
  \E i \in Apply(db, tx[e]).items :
    /\ i.budget = svc[e].budget
    /\ i.date = r.date /\ i.amount = r.amount
    /\ i.description = r.description

C3_SuccessFlag ==
  \A e \in Engines : pc[e] = "done" =>
    /\ run[e].success <=> (svc[e].stats.errors = 0 \/ svc[e].stats.imported > 0)
    /\ ~run[e].success <=> (svc[e].stats.errors > 0 /\ svc[e].stats.imported = 0)

\* a run with a duplicate, an error and nothing imported returned success=false
C3_Witness ==
  \E e \in Engines :
    /\ pc[e] = "done" /\ ~run[e].success
    /\ svc[e].stats.duplicates = 1 /\ svc[e].stats.errors = 1
    /\ svc[e].stats.imported = 0

\* a non-empty batch, all of it duplicates of items the budget already held
AllDuplicates(e) ==
  /\ pc[e] = "done"
  /\ svc[e].stats.total > 0
  /\ svc[e].stats.imported = 0
  /\ svc[e].stats.duplicates = svc[e].stats.total
  /\ \A k \in 1..Len(svc[e].duplicates) :
       \E i \in ItemsOf(run[e].pre, svc[e].budget) :
         /\ i.date = svc[e].duplicates[k].date
         /\ i.amount = svc[e].duplicates[k].amount
         /\ i.description = svc[e].duplicates[k].description

ImportedBy(d, e) ==
  {i \in d.items : i.imported /\ i.uid[2] = run[e].tracker}

\* C5: when the processing of a record raises, the run records exactly one
\* row error for that record, nothing written for the record is kept (no
\* item, no category, member or source, no tag link, no counter value), the
\* items imported from earlier records stay, and the run goes on with the
\* following records until every record is accounted for.
C5_RecordFailureIsolated ==
  [][\A e \in Engines :
       /\ (Processes(e) /\ svc'[e].stats.errors = svc[e].stats.errors + 1) =>
            /\ svc'[e].errors = Append(svc[e].errors, run[e].idx + 1)
            /\ tx'[e] = tx[e]
            /\ db' = db
            /\ svc'[e].stats.imported = svc[e].stats.imported
            /\ svc'[e].stats.duplicates = svc[e].stats.duplicates
            /\ pc'[e] = "loop"
            /\ run'[e].todo = Tail(run[e].todo)
       /\ Processes(e) => svc'[e].stats.errors \in
            {svc[e].stats.errors, svc[e].stats.errors + 1}
       /\ pc'[e] \in {"commit", "done"} =>
            /\ svc'[e].stats.imported + svc'[e].stats.duplicates
                 + svc'[e].stats.errors = svc'[e].stats.total
            /\ Len(svc'[e].errors) = svc'[e].stats.errors
       /\ pc'[e] = "done" =>
            Cardinality(ImportedBy(db', e)) = svc'[e].stats.imported
    ]_vars

\* the first record raised after it had drawn sequence number 1 from an
\* unused counter; the second was then imported with number 2, and the
\* category the first would have created exists only through the second
C5_Witness ==
  \E e \in Engines :
    /\ pc[e] = "done"
    /\ svc[e].errors = <<1>>
    /\ svc[e].stats.imported = 1
    /\ run[e].pre.seq[svc[e].budget] = 0
    /\ run[e].pre.cats = {}
    /\ \E i \in ImportedBy(db, e) : i.seq = 2
    /\ db.seq[svc[e].budget] = 2

\* the part of the database a run into budget b can write
Footprint(d, b) ==
  [items |-> ItemsOf(d, b), counter |-> d.seq[b],
   trackers |-> d.trackers, cats |-> d.cats, mems |-> d.mems, srcs |-> d.srcs,
   bcats |-> d.bcats, bmems |-> d.bmems, bsrcs |-> d.bsrcs]

\* the committed database shows the whole result of run e
Complete(e) ==
  /\ \E t \in db.trackers :
       /\ t.id = run[e].tracker /\ t.budget = svc[e].budget
       /\ t.items_imported = svc[e].stats.imported
       /\ t.duplicates_found = svc[e].stats.duplicates
  /\ Cardinality(ImportedBy(db, e)) = svc[e].stats.imported
  /\ BalancesExact(db, svc[e].budget)

\* C6: while a run is in flight, and after an exception has left its outer
\* unit of work, the committed database holds nothing of the run: no
\* tracker, no item, no entity, no tag link, and the budget's counter and
\* running balances are those from before the run; once the run has returned
\* the committed database holds its complete result.
C6_AllOrNothing ==
  \A e \in Engines :
    /\ pc[e] \in {"loop", "commit", "aborted"} =>
         Footprint(db, svc[e].budget) = Footprint(run[e].pre, svc[e].budget)
    /\ pc[e] = "done" => Complete(e)

\* a run that had imported an item (creating its category and advancing the
\* counter) was aborted by a fault after the loop
C6_Witness ==
  \E e \in Engines :
    /\ pc[e] = "aborted"
    /\ svc[e].stats.imported >= 1
    /\ svc[e].current_sequence_number > db.seq[svc[e].budget]
    /\ db.cats = {} /\ db.trackers = {}

UniqueIds(S) == \A i, j \in S : i.uid = j.uid => i = j

\* C7: no two persisted items share a unique_id; an imported item's
\* unique_id is IMP-<id of its run's tracker>-<its sequence number>, an item
\* saved without one has <budget id>-<its sequence number>.
C7_UniqueIds ==
  /\ UniqueIds(db.items)
  /\ \A e \in Engines : UniqueIds(Apply(db, tx[e]).items)
  /\ \A i \in db.items :
       IF i.imported
         THEN \E t \in db.trackers :
                t.budget = i.budget /\ i.uid = <<"IMP", t.id, i.seq>>
         ELSE i.uid = <<"BUD", i.budget, i.seq>>

\* one budget holds items of two different import runs and a saved item
C7_Witness ==
  \E i, j, k \in db.items :
    /\ i.budget = j.budget /\ j.budget = k.budget
    /\ i.imported /\ j.imported /\ ~k.imported
    /\ i.uid[2] # j.uid[2]

\* what C8 says of a step of run e and of the counter after the run; floor
\* is the value the numbers handed to the run must exceed
NumberStep(e, floor) ==
  /\ (Processes(e) /\ svc'[e].stats.imported = svc[e].stats.imported + 1) =>
       LET n == svc'[e].current_sequence_number
       IN /\ n = svc[e].current_sequence_number + 1
          /\ Apply(db, tx'[e]).seq[svc[e].budget] = n
          /\ \E i \in tx'[e].items \ tx[e].items :
               i.seq = n /\ tx'[e].items = tx[e].items \cup {i}
          /\ \A j \in tx[e].items : j.seq < n
          /\ n > floor
  /\ Processes(e) =>
       svc'[e].current_sequence_number \in
         {svc[e].current_sequence_number,
          svc[e].current_sequence_number + 1}
  /\ pc'[e] = "done" =>
       \A i \in ItemsOf(db', svc'[e].budget) :
         i.seq <= db'.seq[svc'[e].budget]

\* C8 as stated: each call raises the counter by one, persists and returns
\* it; the items of a run get strictly increasing numbers in input order,
\* each greater than every number the counter handed out before the run;
\* after the run the persisted counter is at least every item's number.
C8_FreshNumbers ==
  [][\A e \in Engines : NumberStep(e, run[e].issued0)]_vars

\* C8 amended: as C8, but the numbers of a run are greater than the budget's
\* persisted counter at the start of the run (hence than the number of every
\* item the budget then holds); a number handed out to a record or run whose
\* unit of work was rolled back is handed out again.
C8_NumbersAboveCounter ==
  [][\A e \in Engines : NumberStep(e, run[e].pre.seq[svc[e].budget])]_vars

CounterAtStart(e) == run[e].pre.seq[svc[e].budget]

\* a run into a budget whose counter was already 1: its first record raised
\* after drawing number 2, its second record was imported with number 3
C8_Witness ==
  \E e \in Engines :
    /\ pc[e] = "done"
    /\ CounterAtStart(e) = 1
    /\ svc[e].errors = <<1>>
    /\ \E i \in ImportedBy(db, e) : i.seq = 3
    /\ db.seq[svc[e].budget] = 3

\* everything the database holds of budget b
BudgetPart(d, b) ==
  [items    |-> ItemsOf(d, b),
   counter  |-> d.seq[b],
   trackers |-> {t \in d.trackers : t.budget = b},
   bcats    |-> {x \in d.bcats : x[1] = b},
   bmems    |-> {x \in d.bmems : x[1] = b},
   bsrcs    |-> {x \in d.bsrcs : x[1] = b}]

\* the database run e would see had nothing else run since it started
Alone(e) == Apply(run[e].pre, tx[e])

C9_NoSharedSequenceNumber ==
  \A i, j \in db.items :
    (i.budget = j.budget /\ i.seq = j.seq) => i = j

\* C11: a preview, for any record list, any limit and any storage state,
\* leaves the items, categories, members, sources, trackers, tag sets,
\* sequence counters and running balances exactly as they were.
C11_PreviewReadOnly ==
  [][(pv' # pv /\ pv' # NoPreview) => (db' = db /\ tx' = tx)]_vars

\* a preview of a budget that holds an item found a duplicate and a category
\* that does not exist yet
C11_Witness ==
  /\ pv # NoPreview
  /\ pv.duplicates # <<>>
  /\ pv.missing_categories # {}
  /\ pv.preview_count < pv.total_count
  /\ ItemsOf(db, pv.budget) # {}

\* C12 as stated: an import of the previewed list, run right after the preview
\* on unchanged storage and producing no row errors, imports exactly
\* will_import items and skips exactly total_count - will_import records.
C12_WillImportIsFinalCount ==
  \A e \in Engines :
    (pc[e] = "done" /\ run[e].projected # -1 /\ svc[e].stats.errors = 0) =>
      /\ svc[e].stats.imported = run[e].projected
      /\ svc[e].stats.duplicates = svc[e].stats.total - run[e].projected

\* C13: a run starts by creating one tracker of the budget with zero counts
\* and a new id, does not write it while records are processed, and when it
\* returns the database holds exactly one tracker more than before: that
\* tracker, with items_imported the number of items carrying its id and
\* duplicates_found the number of records the run skipped as duplicates;
\* no step changes or removes a tracker an earlier run left.
C13_TrackerLifecycle ==
  [][\A e \in Engines :
       /\ (pc[e] = "idle" /\ pc'[e] = "loop") =>
            /\ tx'[e].trackers =
                 {[id |-> run'[e].tracker, budget |-> svc'[e].budget,
                   items_imported |-> 0, duplicates_found |-> 0]}
            /\ \A t \in db.trackers : t.id # run'[e].tracker
       /\ Processes(e) => tx'[e].trackers = tx[e].trackers
       /\ (pc[e] = "commit" /\ pc'[e] = "done") =>
            \E t \in db'.trackers :
              /\ t \notin db.trackers
              /\ db'.trackers = db.trackers \cup {t}
              /\ t.id = run[e].tracker /\ t.budget = svc[e].budget
              /\ t.items_imported = Cardinality(ImportedBy(db', e))
              /\ t.duplicates_found = Len(svc[e].duplicates)
       /\ db.trackers \subseteq db'.trackers
       /\ db'.trackers # db.trackers =>
            \E o \in Engines : pc[o] = "commit" /\ pc'[o] = "done"
    ]_vars

\* the second run into a budget returned having imported one record and
\* skipped the other; the first run's tracker still shows its own counts
C13_Witness ==
  \E e \in Engines :
    /\ pc[e] = "done"
    /\ svc[e].stats.imported = 1 /\ svc[e].stats.duplicates = 1
    /\ \E t, u \in db.trackers :
         /\ t.id = run[e].tracker /\ u.id # t.id /\ u.budget = t.budget
         /\ t.items_imported = 1 /\ t.duplicates_found = 1
         /\ u.items_imported = 1

Named(S, name) == {x \in S : x.name = name}

\* in database d every imported item's category, member and source are
\* tagged to its budget and each is the one entity of that name
EntitiesResolved(d) ==
  /\ \A i \in d.items : i.imported =>
       /\ i.cats # {}
       /\ \A c \in i.cats :
            <<i.budget, c>> \in d.bcats /\ Cardinality(Named(d.cats, c)) = 1
       /\ i.member # "" =>
            /\ <<i.budget, i.member>> \in d.bmems
            /\ Cardinality(Named(d.mems, i.member)) = 1
       /\ i.source # "" =>
            /\ <<i.budget, i.source>> \in d.bsrcs
            /\ Cardinality(Named(d.srcs, i.source)) = 1
  /\ \A S \in {d.cats, d.mems, d.srcs} :
       \A x, y \in S : x.name = y.name => x = y

\* C14: after every step, each imported item's category, and its member and
\* source when the record named one, are in the tag sets of the item's budget
\* and exist once under that name; no two categories, members or sources
\* share a name; an entity that exists is never changed (a source keeps its
\* type), and a source that is created has type income.
C14_EntitiesResolved ==
  [][/\ EntitiesResolved(db')
     /\ db.cats \subseteq db'.cats
     /\ db.mems \subseteq db'.mems
     /\ db.srcs \subseteq db'.srcs
     /\ \A s \in db'.srcs \ db.srcs : s.source_type = "income"
     /\ \A i \in db'.items \ db.items : i.imported =>
          \A x \in Named(db.srcs, i.source) : x \in db'.srcs
    ]_vars

\* one import used the source that existed, which kept its type, and created
\* another source
C14_Witness ==
  \E i, j \in db.items :
    /\ i.imported /\ j.imported /\ i.budget = j.budget
    /\ i.source = "bank" /\ j.source = "cash"
    /\ db.srcs = {[name |-> "bank", source_type |-> "transfer"],
                  [name |-> "cash", source_type |-> "income"]}
    /\ i.member = "ann" /\ j.member = ""
    /\ db.bsrcs = {<<i.budget, "bank">>, <<i.budget, "cash">>}

Required == {"date", "description", "amount", "category"}

NameOf(f) ==
  CASE f = "date" -> <<"d", "a", "t", "e">> [] f = "description" -> <<"d", "e", "s", "c", "r", "i", "p", "t", "i", "o", "n">>
    [] f = "amount" -> <<"a", "m", "o", "u", "n", "t">> [] OTHER -> <<"c", "a", "t", "e", "g", "o", "r", "y">>

\* the field an error message names
FieldNamed(msg) ==
  CASE msg \in {"Date is required", "Invalid date format"} -> "date"
    [] msg = "Description is required" -> "description"
    [] msg \in {"Amount is required", "Invalid amount"} -> "amount"
    [] msg = "Category is required" -> "category"
    [] OTHER -> "none"

Blank(t) == t \in {Absent, None} \/ \A i \in 1..Len(t) : t[i] \in White

\* the text a data line gives for the column named f, Absent when the line
\* ends before that column
ColumnText(fieldnames, fields, f) ==
  LET names == [k \in 1..Len(fieldnames) |-> Upper(Strip(fieldnames[k]))]
      name == Upper(NameOf(f))
      i == CHOOSE k \in 1..Len(names) :
             names[k] = name /\ \A j \in (k + 1)..Len(names) : names[j] # name
  IN IF i <= Len(fields) THEN fields[i] ELSE Absent

\* the required fields that the row or element just read lacks
Lacking ==
  IF parser'.format = "csv"
    THEN {f \in Required :
            Blank(ColumnText(parser.fieldnames, parser'.last, f))}
    ELSE {f \in Required : Blank(parser'.last[f])}

\* a data row (not a blank line, not a row of empty fields) or an element
\* has just been read
ReadsRow ==
  \/ /\ parser.format = "csv" /\ parser'.row_num = parser.row_num + 1
     /\ \E i \in 1..Len(parser'.last) : ~Blank(parser'.last[i])
  \/ /\ parser.format = "xml" /\ parser'.idx = parser.idx + 1

CompleteRecord(t) ==
  /\ t.date # None /\ t.amount # None
  /\ t.description # <<>> /\ t.category # <<>>

\* C15 as stated: every record the delimited-text and markup parsers return
\* has a date, an amount, a non-empty description and a non-empty category;
\* a row or element that lacks one of them (absent, empty or only
\* whitespace) yields no record and one error naming such a field.
C15_RecordsComplete ==
  [][/\ parser'.format \in {"csv", "xml"} =>
          \A i \in 1..Len(parser'.transactions) :
            CompleteRecord(parser'.transactions[i])
     /\ (ReadsRow /\ Lacking # {}) =>
          /\ parser'.transactions = parser.transactions
          /\ \E err \in [row : {IF parser'.format = "csv" THEN parser'.row_num
                                 ELSE parser'.idx},
                         msg : {"Date is required", "Invalid date format",
                                "Description is required", "Amount is required",
                                "Invalid amount", "Category is required"}] :
               /\ parser'.errors = Append(parser.errors, err)
               /\ FieldNamed(err.msg) \in Lacking
    ]_vars

\* the required names are all among the headers, compared without regard to
\* case and surrounding whitespace
HeaderComplete(first) ==
  /\ first \notin {None, <<>>}
  /\ \A f \in Required :
       \E i \in 1..Len(first) : Upper(Strip(first[i])) = Upper(NameOf(f))

\* C16: when the text has no header row or its headers lack a required name
\* (compared case-insensitively, whitespace trimmed), parse returns no record
\* and exactly one error, and reads no data row; when the required names are
\* all there, no header error is recorded.
C16_HeaderCheck ==
  parser.format = "csv" =>
    IF HeaderComplete(parser.fieldnames)
      THEN \A i \in 1..Len(parser.errors) : parser.errors[i].row # 0
      ELSE /\ parser.state = "returned"
           /\ parser.transactions = <<>>
           /\ Len(parser.errors) = 1
           /\ parser.row_num = 1

\* a header with five names, one of them close to a required one, was
\* rejected with one error
C16_Witness ==
  /\ parser.format = "csv"
  /\ parser.state = "returned"
  /\ parser.fieldnames \notin {None, <<>>}
  /\ Len(parser.fieldnames) = 5
  /\ Len(parser.errors) = 1 /\ parser.errors[1].row = 0

\* a line of the delimited text, other than a blank line, has just been read
ReadsLine == parser.format = "csv" /\ parser'.row_num = parser.row_num + 1

\* the line just read has only empty fields
EmptyLine == \A i \in 1..Len(parser'.last) : Blank(parser'.last[i])

\* the line just read has an empty required field, or a date or an amount
\* that cannot be parsed
InvalidLine ==
  LET text(f) == ColumnText(parser.fieldnames, parser'.last, f)
  IN \/ Lacking # {}
     \/ FirstAccepted(Strip(text("date")), DateFormats, 1) = None
     \/ ~IsDecimal(CleanAmount(text("amount")))

\* C17 as stated: with a valid header every data row is handled on its own:
\* a row whose fields are all empty is skipped without an error; a row with
\* an empty required field or an unparsable date or amount adds exactly one
\* error and no record; every other row adds exactly one record, after the
\* records of the rows before it; and this holds whatever the rows before.
C17_RowsIndependent ==
  [][ReadsLine =>
       IF EmptyLine
         THEN parser'.transactions = parser.transactions
              /\ parser'.errors = parser.errors
       ELSE IF InvalidLine
         THEN /\ parser'.transactions = parser.transactions
              /\ Len(parser'.errors) = Len(parser.errors) + 1
              /\ SubSeq(parser'.errors, 1, Len(parser.errors)) = parser.errors
              /\ parser'.errors[Len(parser'.errors)].row = parser'.row_num
         ELSE /\ Len(parser'.transactions) = Len(parser.transactions) + 1
              /\ SubSeq(parser'.transactions, 1, Len(parser.transactions))
                   = parser.transactions
              /\ parser'.errors = parser.errors
    ]_vars

\* C17 for the rows that have exactly one field for every header
C17_FullRowsIndependent ==
  [][(ReadsLine /\ Len(parser'.last) = Len(parser.fieldnames)) =>
       IF EmptyLine
         THEN parser'.transactions = parser.transactions
              /\ parser'.errors = parser.errors
       ELSE IF InvalidLine
         THEN /\ parser'.transactions = parser.transactions
              /\ Len(parser'.errors) = Len(parser.errors) + 1
              /\ SubSeq(parser'.errors, 1, Len(parser.errors)) = parser.errors
              /\ parser'.errors[Len(parser'.errors)].row = parser'.row_num
         ELSE /\ Len(parser'.transactions) = Len(parser.transactions) + 1
              /\ SubSeq(parser'.transactions, 1, Len(parser.transactions))
                   = parser.transactions
              /\ parser'.errors = parser.errors
    ]_vars

\* a step of the interchange parser that reads a transaction object and
\* returns a record for it
OfxRecord ==
  /\ parser.format = "ofx" /\ parser'.idx = parser.idx + 1
  /\ Len(parser'.transactions) = Len(parser.transactions) + 1

\* the record of that step
NewRecord == parser'.transactions[Len(parser'.transactions)]

\* present: neither absent, empty nor whitespace-only
Present(t) == ~Blank(t)

\* the description a transaction object is to get: payee and memo joined
\* when both are present and distinct, else the one present, else the type
\* label, else the literal text
WantedDescription(t) ==
  IF Present(t.payee) /\ Present(t.memo) /\ Strip(t.payee) # Strip(t.memo)
    THEN Strip(t.payee) \o <<" ", "-", " ">> \o Strip(t.memo)
  ELSE IF Present(t.payee) THEN Strip(t.payee)
  ELSE IF Present(t.memo) THEN Strip(t.memo)
  ELSE IF Present(t.type) THEN t.type
  ELSE <<"T", "r", "a", "n", "s", "a", "c", "t", "i", "o", "n">>

\* C18: the description the interchange parser gives a transaction is never
\* empty, whatever combination of present, absent, empty or whitespace-only
\* payee, memo and type it has: it is payee and memo joined when both are
\* present and distinct, else the one present, else the type label, else
\* the literal text Transaction
C18_DescriptionNeverEmpty ==
  [][OfxRecord =>
       /\ NewRecord.description # <<>>
       /\ NewRecord.description = WantedDescription(parser'.last)]_vars

\* C18, first half alone: the description of a record is never empty
C18_NeverEmpty ==
  parser.format = "ofx" =>
    \A i \in 1..Len(parser.transactions) :
       parser.transactions[i].description # <<>>

\* the type of a transaction object, in upper case; empty when it has none
TypeOf(t) == IF t.type \in {Absent, None} THEN <<>> ELSE Upper(t.type)

\* word occurs, in any case, in the payee or in the memo of the object
Occurs(t, word) ==
  \/ t.payee \notin {Absent, None} /\ Contains(Upper(t.payee), Upper(word))
  \/ t.memo \notin {Absent, None} /\ Contains(Upper(t.memo), Upper(word))

\* the expense categories in the fixed order: groceries, dining, fuel,
\* healthcare, utilities, shopping
ExpenseOrder ==
  <<<<"G", "r", "o", "c", "e", "r", "i", "e", "s">>, <<"F", "o", "o", "d", " ", "&", " ", "D", "i", "n", "i", "n", "g">>, <<"G", "a", "s", " ", "&", " ", "F", "u", "e", "l">>, <<"H", "e", "a", "l", "t", "h", "c", "a", "r", "e">>, <<"U", "t", "i", "l", "i", "t", "i", "e", "s">>, <<"S", "h", "o", "p", "p", "i", "n", "g">>>>

\* the keywords of a category
KeywordsOf(category) ==
  UNION {ExpenseGroups[k].words :
           k \in {j \in 1..Len(ExpenseGroups) : ExpenseGroups[j].category = category}}

\* the k-th category has a keyword that occurs in the object
GroupMatches(t, k) == \E w \in KeywordsOf(ExpenseOrder[k]) : Occurs(t, w)

\* the category of the first group in the fixed order that matches
WantedExpense(t) ==
  IF \A k \in 1..Len(ExpenseOrder) : ~GroupMatches(t, k) THEN <<"E", "x", "p", "e", "n", "s", "e", "s">>
  ELSE ExpenseOrder[CHOOSE k \in 1..Len(ExpenseOrder) :
         GroupMatches(t, k) /\ \A j \in 1..(k - 1) : ~GroupMatches(t, j)]

\* C19: a transaction of type CHECK gets category Check; any other
\* transaction with a negative amount or of type DEBIT gets the category of
\* the first keyword group, in the order groceries, dining, fuel,
\* healthcare, utilities, shopping, one of whose keywords occurs in any case
\* in payee or memo, and Expenses when no group matches
C19_ExpenseCategory ==
  [][OfxRecord =>
       LET t == parser'.last
       IN IF TypeOf(t) = <<"C", "H", "E", "C", "K">> THEN NewRecord.category = <<"C", "h", "e", "c", "k">>
          ELSE (Sign(t.amount) < 0 \/ TypeOf(t) = <<"D", "E", "B", "I", "T">>)
                 => NewRecord.category = WantedExpense(t)]_vars

\* a transaction with a negative amount whose payee names a dining keyword
\* and whose memo names a groceries keyword has got category Groceries, and
\* a check has got category Check
C19_Witness ==
  /\ parser.format = "ofx" /\ parser.idx = 2
  /\ Len(parser.transactions) = 2
  /\ TypeOf(parser.last) = <<"C", "H", "E", "C", "K">>
  /\ parser.transactions[2].category = <<"C", "h", "e", "c", "k">>
  /\ parser.transactions[1].description = <<"c", "a", "f", "e", " ", "-", " ", "T", "A", "R", "G", "E", "T">>
  /\ Sign(parser.transactions[1].amount) < 0
  /\ parser.transactions[1].category = <<"G", "r", "o", "c", "e", "r", "i", "e", "s">>

\* the category a credit is to get: Income when payee or memo names deposit,
\* paycheck or salary, otherwise Payment when it names payment or autopay,
\* otherwise Income
WantedCredit(t) ==
  IF \E w \in {<<"d", "e", "p", "o", "s", "i", "t">>, <<"p", "a", "y", "c", "h", "e", "c", "k">>, <<"s", "a", "l", "a", "r", "y">>} : Occurs(t, w) THEN <<"I", "n", "c", "o", "m", "e">>
  ELSE IF \E w \in {<<"p", "a", "y", "m", "e", "n", "t">>, <<"a", "u", "t", "o", "p", "a", "y">>} : Occurs(t, w) THEN <<"P", "a", "y", "m", "e", "n", "t">>
  ELSE <<"I", "n", "c", "o", "m", "e">>

\* C20 as stated: every transaction that has a positive amount or has type
\* CREDIT gets category Income or Payment: Income when payee or memo names
\* deposit, paycheck or salary, otherwise Payment when it names payment or
\* autopay, otherwise Income
C20_CreditCategory ==
  [][OfxRecord =>
       LET t == parser'.last
       IN (Sign(t.amount) > 0 \/ TypeOf(t) = <<"C", "R", "E", "D", "I", "T">>)
            => NewRecord.category = WantedCredit(t)]_vars

\* C20 amended: every transaction that is not of type CHECK or DEBIT and
\* whose amount is not negative, and that has a positive amount or has type
\* CREDIT, gets category Income or Payment by the keywords as stated
C20_CreditCategoryAfterExpenses ==
  [][OfxRecord =>
       LET t == parser'.last
       IN /\ TypeOf(t) \notin {<<"C", "H", "E", "C", "K">>, <<"D", "E", "B", "I", "T">>}
          /\ Sign(t.amount) >= 0
          /\ (Sign(t.amount) > 0 \/ TypeOf(t) = <<"C", "R", "E", "D", "I", "T">>)
          => NewRecord.category = WantedCredit(t)]_vars

\* a credit of amount zero whose payee names salary and payment has got
\* category Income, after a positive amount without type that names autopay
\* has got category Payment
C20_Witness ==
  /\ parser.format = "ofx" /\ parser.idx = 2
  /\ Len(parser.transactions) = 2
  /\ parser.transactions[1].description = <<"a", "u", "t", "o", "p", "a", "y">>
  /\ Sign(parser.transactions[1].amount) > 0
  /\ parser.transactions[1].category = <<"P", "a", "y", "m", "e", "n", "t">>
  /\ parser.last.payee = <<"s", "a", "l", "a", "r", "y", " ", "p", "a", "y", "m", "e", "n", "t">>
  /\ TypeOf(parser.last) = <<"C", "R", "E", "D", "I", "T">>
  /\ Sign(parser.last.amount) = 0
  /\ parser.transactions[2].category = <<"I", "n", "c", "o", "m", "e">>

\* C21: parse of the delimited-text and markup parsers is repeatable: for
\* one input text, every call of parse, on either of two parser objects and
\* whether the first or the second call on that object, yields the same
\* record list and the same error and warning lists
C21_ParseRepeatable ==
  parser.format \in {"csv", "xml"} /\ parser.state = "objects" =>
    \A i, j \in 1..2 :
      \A k \in 1..Len(parser.objects[i].calls) :
        \A l \in 1..Len(parser.objects[j].calls) :
          parser.objects[i].calls[k] = parser.objects[j].calls[l]

\* C21 for two parser objects on which parse is called once each
C21_FirstCallsAgree ==
  parser.format \in {"csv", "xml"} /\ parser.state = "objects" =>
    \A i, j \in 1..2 :
      parser.objects[i].calls # <<>> /\ parser.objects[j].calls # <<>>
        => parser.objects[i].calls[1] = parser.objects[j].calls[1]

\* C21 for the record lists alone
C21_SameRecords ==
  parser.format \in {"csv", "xml"} /\ parser.state = "objects" =>
    \A i, j \in 1..2 :
      \A k \in 1..Len(parser.objects[i].calls) :
        \A l \in 1..Len(parser.objects[j].calls) :
          parser.objects[i].calls[k].transactions
            = parser.objects[j].calls[l].transactions

\* the fixed list: YYYY-MM-DD, MM/DD/YYYY, DD/MM/YYYY, YYYY/MM/DD,
\* MM-DD-YYYY, DD-MM-YYYY
FixedList ==
  << <<"-", <<"Y", "m", "d">> >>, <<"/", <<"m", "d", "Y">> >>,
     <<"/", <<"d", "m", "Y">> >>, <<"/", <<"Y", "m", "d">> >>,
     <<"-", <<"m", "d", "Y">> >>, <<"-", <<"d", "m", "Y">> >> >>

\* the k-th format of the fixed list accepts the text
Accepts(t, k) == StrpTime(t, FixedList[k][1], FixedList[k][2]) # None

\* the date of the first format of the fixed list that accepts the text;
\* None when none does
Resolved(t) ==
  IF \A k \in 1..Len(FixedList) : ~Accepts(t, k) THEN None
  ELSE LET k == CHOOSE i \in 1..Len(FixedList) :
                  Accepts(t, i) /\ \A j \in 1..(i - 1) : ~Accepts(t, j)
       IN StrpTime(t, FixedList[k][1], FixedList[k][2])

\* what a parser made of the text is the date of the first format that
\* accepts it, or a row error and no date when no format accepts it
ResolvedAsListed(result, t) ==
  /\ result.value = Resolved(t)
  /\ (result.errors # <<>>) = (Resolved(t) = None)

\* C22: a date string is resolved by the first format that accepts it in the
\* list YYYY-MM-DD, MM/DD/YYYY, DD/MM/YYYY, YYYY/MM/DD, MM-DD-YYYY,
\* DD-MM-YYYY (01/02/2024 is month 01, day 02); a string no format accepts is
\* a row error; the delimited-text and the markup parser resolve every date
\* string to the same result
C22_DateResolution ==
  parser.format = "dates" =>
    /\ \A i \in 1..Len(parser.csv) : ResolvedAsListed(parser.csv[i], parser.date_str)
    /\ \A i \in 1..Len(parser.xml) : ResolvedAsListed(parser.xml[i], parser.date_str)
    /\ parser.csv # <<>> /\ parser.xml # <<>>
         => parser.csv[1].value = parser.xml[1].value
    /\ parser.csv # <<>> /\ parser.date_str = <<"0", "1", "/", "0", "2", "/", "2", "0", "2", "4">>
         => parser.csv[1].value = <<2024, 1, 2>>

\* both parsers have resolved 13/01/2024, which the second format rejects,
\* by the third format
C22_Witness ==
  /\ parser.format = "dates"
  /\ parser.date_str = <<"1", "3", "/", "0", "1", "/", "2", "0", "2", "4">>
  /\ ~Accepts(parser.date_str, 2)
  /\ parser.csv # <<>> /\ parser.xml # <<>>
  /\ parser.csv[1].value = <<2024, 1, 13>>
  /\ parser.xml[1].value = <<2024, 1, 13>>

\* every element of the document, the root first, in document order
DocumentOrder(root) == <<root>> \o Below(root)

\* the elements with tag transaction anywhere in the document
TransactionElements(root) ==
  SelectSeq(DocumentOrder(root), LAMBDA n : n.tag = "transaction")

\* C23: the markup parser processes every element with tag transaction found
\* anywhere in a well-formed document, at any depth and including the root
\* element and a transaction element inside another, exactly once and in
\* document order, each yielding either one record or one row error
C23_EveryTransactionElement ==
  parser.format = "xml" /\ parser.state \in {"found", "returned"} =>
    /\ parser.found = TransactionElements(parser.root)
    /\ Len(parser.transactions) + Len(parser.errors) = parser.idx
    /\ parser.state = "returned" => parser.idx = Len(parser.found)

\* C23 for the elements below the root
C23_ElementsBelowRoot ==
  parser.format = "xml" /\ parser.state \in {"found", "returned"} =>
    /\ parser.found = IF parser.root.tag = "transaction"
                        THEN Tail(TransactionElements(parser.root))
                        ELSE TransactionElements(parser.root)
    /\ parser.found # <<>> =>
         Len(parser.transactions) + Len(parser.errors) = parser.idx
    /\ parser.state = "returned" => parser.idx = Len(parser.found)

\* the row-level error a step of the delimited-text parser has added
NewError == parser'.errors[Len(parser'.errors)]

\* C24: the row number carried by a row-level error of the delimited-text
\* parser is the 1-based position of the offending row in the input text,
\* the header being row 1, also when blank lines or all-empty rows precede
\* that row
C24_RowNumbers ==
  [][ReadsLine /\ Len(parser'.errors) > Len(parser.errors)
       => NewError.row = parser'.lines]_vars

\* C24 for the rows that no blank line precedes
C24_RowNumbersWithoutBlankLines ==
  [][(/\ ReadsLine /\ Len(parser'.errors) > Len(parser.errors)
      /\ parser.lines = parser.row_num)
       => NewError.row = parser'.lines]_vars

\* C25: processing a record that is a duplicate changes nothing in storage:
\* no item is inserted, no category, member or source is created, nothing is
\* added to the budget's tag sets and the budget's sequence counter is not
\* advanced; only the run's duplicate counter and duplicate list (row index,
\* description, date, amount) grow by one
C25_DuplicateChangesNothing ==
  [][\A e \in Engines :
       Processes(e) /\ HoldsSame(e, Head(run[e].todo)) =>
         LET r == Head(run[e].todo)
         IN /\ tx'[e] = tx[e]
            /\ db' = db
            /\ svc'[e].current_sequence_number = svc[e].current_sequence_number
            /\ issued' = issued
            /\ svc'[e].stats = [svc[e].stats EXCEPT !.duplicates = @ + 1]
            /\ svc'[e].errors = svc[e].errors
            /\ Len(svc'[e].duplicates) = Len(svc[e].duplicates) + 1
            /\ svc'[e].duplicates[Len(svc'[e].duplicates)] =
                 [row |-> run[e].idx + 1, description |-> r.description,
                  date |-> r.date, amount |-> r.amount]
    ]_vars

\* the second record of a run repeats the first, which the run has inserted:
\* it is counted as a duplicate and the run's writes hold one item
C25_Witness ==
  \E e \in Engines :
    /\ pc[e] = "loop"
    /\ run[e].idx = 2
    /\ svc[e].stats.imported = 1 /\ svc[e].stats.duplicates = 1
    /\ svc[e].duplicates[1].row = 2
    /\ Cardinality(tx[e].items) = 1
    /\ svc[e].current_sequence_number = run[e].pre.seq[svc[e].budget] + 1

\* C26: a non-duplicate record whose category is missing or empty makes the
\* import record exactly one row error for it and count one error; no item,
\* member or source is created for it, the sequence counter is not advanced,
\* and the following records are still processed
C26_NoCategoryIsRowError ==
  [][\A e \in Engines :
       LET r == Head(run[e].todo)
       IN Processes(e) /\ ~HoldsSame(e, r) /\ r.category = "" =>
            /\ svc'[e].errors = Append(svc[e].errors, run[e].idx + 1)
            /\ svc'[e].stats = [svc[e].stats EXCEPT !.errors = @ + 1]
            /\ svc'[e].duplicates = svc[e].duplicates
            /\ tx'[e] = tx[e]
            /\ db' = db
            /\ svc'[e].current_sequence_number = svc[e].current_sequence_number
            /\ issued' = issued
            /\ pc'[e] = "loop"
            /\ run'[e].todo = Tail(run[e].todo)
    ]_vars

\* a run whose first record has no category and names no member or source
\* has returned: one row error for row 1, the second record imported with
\* the first number after the counter, no member created
C26_Witness ==
  \E e \in Engines :
    /\ pc[e] = "done"
    /\ svc[e].errors = <<1>>
    /\ svc[e].stats = [total |-> 2, imported |-> 1, duplicates |-> 0, errors |-> 1]
    /\ \E i \in ImportedBy(db, e) :
         /\ i.description = "x"
         /\ i.seq = run[e].pre.seq[svc[e].budget] + 1
    /\ \A i \in db.items : i.description # "y"
    /\ faults = 0

\* a record with all required fields and none of the optional member,
\* source and reference_number
RequiredOnly(r) ==
  /\ r.description # "" /\ r.category # ""
  /\ r.member = "" /\ r.source = ""
  /\ r.reference_number \in {"", Null}

\* C27: a record emitted by any of the three parsers that has all required
\* fields and none of the optional member, source and reference_number, and
\* is not a duplicate, is persisted by the import as one item (imported
\* counter + 1, no row error), the item's reference_number being empty text
C27_RequiredFieldsSuffice ==
  [][\A e \in Engines :
       LET r == Head(run[e].todo)
       IN (/\ Processes(e) /\ RequiredOnly(r) /\ ~HoldsSame(e, r)
           /\ faults' = faults) =>
            /\ svc'[e].stats = [svc[e].stats EXCEPT !.imported = @ + 1]
            /\ svc'[e].errors = svc[e].errors
            /\ \E i \in tx'[e].items \ tx[e].items :
                 /\ tx'[e].items = tx[e].items \cup {i}
                 /\ i.date = r.date /\ i.amount = r.amount
                 /\ i.description = r.description
                 /\ i.reference_number = ""
    ]_vars

\* C27 for the records of the delimited-text and the interchange parser
C27_RequiredFieldsSufficeCsvOfx ==
  [][\A e \in Engines :
       LET r == Head(run[e].todo)
       IN (/\ Processes(e) /\ RequiredOnly(r) /\ ~HoldsSame(e, r)
           /\ faults' = faults /\ parser.format \in {"csv", "ofx"}) =>
            /\ svc'[e].stats = [svc[e].stats EXCEPT !.imported = @ + 1]
            /\ svc'[e].errors = svc[e].errors
            /\ \E i \in tx'[e].items \ tx[e].items :
                 /\ tx'[e].items = tx[e].items \cup {i}
                 /\ i.date = r.date /\ i.amount = r.amount
                 /\ i.description = r.description
                 /\ i.reference_number = ""
    ]_vars

\* C28: for every invocation of import that returns, including a second one
\* on the same service object, the returned stats describe that invocation
\* only: total is the number of records passed, imported + duplicates +
\* errors = total, the errors list has exactly errors entries and the
\* duplicates list exactly duplicates entries
C28_StatsOfThisInvocation ==
  \A e \in Engines :
    pc[e] = "done" =>
      /\ svc[e].stats.total = run[e].idx
      /\ svc[e].stats.imported + svc[e].stats.duplicates
           + svc[e].stats.errors = svc[e].stats.total
      /\ Len(svc[e].errors) = svc[e].stats.errors
      /\ Len(svc[e].duplicates) = svc[e].stats.duplicates

\* C28, the part that holds for a second invocation too: total is the number
\* of records passed and each list is as long as its counter says
C28_TotalAndListLengths ==
  \A e \in Engines :
    pc[e] = "done" =>
      /\ svc[e].stats.total = run[e].idx
      /\ Len(svc[e].errors) = svc[e].stats.errors
      /\ Len(svc[e].duplicates) = svc[e].stats.duplicates

\* the items of budget b that carry the date, amount and description of r
Persisted(b, r) ==
  {i \in db.items : /\ i.budget = b /\ i.date = r.date
                    /\ i.amount = r.amount /\ i.description = r.description}

\* the other of two concurrent runs of the same list has ended, and this
\* one has just returned
BothReturned(e) ==
  /\ pc[e] = "done"
  /\ \A o \in Engines \ {e} : pc[o] = "idle"
  /\ faults = 0

\* C29: when two imports of the same record list run concurrently into the
\* same budget, which holds none of those records, every distinct (date,
\* amount, description) of the list ends up persisted exactly once in the
\* budget
C29_PersistedExactlyOnce ==
  \A e \in Engines :
    BothReturned(e) =>
      \A k \in 1..Len(run[e].records) :
        ~NoCategory(run[e].records[k].category) =>
          Cardinality(Persisted(svc[e].budget, run[e].records[k])) = 1

\* C29, the part that holds: every record of the list that has a category
\* is persisted at least once
C29_PersistedAtLeastOnce ==
  \A e \in Engines :
    BothReturned(e) =>
      \A k \in 1..Len(run[e].records) :
        ~NoCategory(run[e].records[k].category) =>
          Persisted(svc[e].budget, run[e].records[k]) # {}

\* request e enters the import in this step
Confirms(e) == pc[e] = "idle" /\ pc'[e] = "loop"

\* the session holds a pending import for the budget and with the records
\* of the import that request e enters
HoldsPendingFor(e) ==
  /\ session.pending # NoPending
  /\ session.pending.budget = svc'[e].budget
  /\ session.pending.transactions = run'[e].records

\* the pending import has not been confirmed since its upload: no request
\* is importing it and no import of it has returned
NotConfirmedSince ==
  /\ session.committed[session.pending.upload] = 0
  /\ \A o \in Engines : session.held[o] # session.pending.upload

\* an upload whose parse reported an error
UploadWithErrors ==
  session'.uploads = session.uploads + 1 /\ session'.parse_errors > 0

\* the confirm of request e responds after its import has returned
ConfirmReturns(e) == pc[e] = "done" /\ pc'[e] = "idle"

\* a cancel
Cancels ==
  /\ session'.uploads = session.uploads
  /\ session' # session
  /\ UNCHANGED <<db, tx, pc, svc, run, nextTracker, adds, faults, issued, pv>>

\* C30: confirm executes an import only when the session holds a pending
\* import that an upload stored for the same budget and that was neither
\* confirmed nor cancelled since; an upload whose parse reported any error
\* stores no pending import; after a confirm whose import returned, or
\* after a cancel, no pending import remains; each upload leads to at most
\* one committed import run
C30_UploadFlow ==
  [][/\ \A e \in Engines :
          Confirms(e) => HoldsPendingFor(e) /\ NotConfirmedSince
     /\ UploadWithErrors => session'.pending = session.pending
     /\ \A e \in Engines : ConfirmReturns(e) => session'.pending = NoPending
     /\ Cancels => session'.pending = NoPending
     /\ \A u \in 1..MaxUploads : session'.committed[u] <= 1
    ]_vars

\* C30 without the two parts that concurrent confirms break: a confirm
\* imports the stored pending import of its budget, an upload with parse
\* errors stores nothing, and a returned confirm or a cancel leaves no
\* pending import
C30_PendingStoredAndCleared ==
  [][/\ \A e \in Engines : Confirms(e) => HoldsPendingFor(e)
     /\ UploadWithErrors => session'.pending = session.pending
     /\ \A e \in Engines : ConfirmReturns(e) => session'.pending = NoPending
     /\ Cancels => session'.pending = NoPending
    ]_vars

\* C30, its last part alone: no upload's pending import is imported by two
\* runs that return
C30_AtMostOneRun ==
  \A u \in 1..MaxUploads : session.committed[u] <= 1

====
